---- MODULE Spec2Model ----
(***************************************************************************)
(* AssetHound: the URL liveness-validation engine and its editor host.     *)
(*   UrlCache            (src/src/cache.ts)                                *)
(*   makeRequest         (src/src/linkValidator.ts, native http/https)     *)
(*   LinkValidator       (src/src/linkValidator.ts)                        *)
(*   DiagnosticsManager  (src/src/diagnosticsManager.ts)                   *)
(*   extension           (src/unnamed/part_000)                            *)
(***************************************************************************)
EXTENDS Integers, Sequences, FiniteSets, TLC

VARIABLES
    now,              \* the reading of Date.now(), in ms
    ttlMs,            \* UrlCache.ttlMs
    cache,            \* UrlCache.cache : url -> CacheEntry (a Map; absent keys are outside the domain)
    ret,              \* the last UrlCache API call and what it returned
    maxConcurrent,    \* LinkValidator.maxConcurrent
    abortController,  \* LinkValidator.abortController: the batch whose controller it is, 0 for null
    aborted,          \* the batches whose AbortSignal is aborted
    batch,            \* every validateUrls call: its input, loop position, results
    val,              \* every validateUrl invocation of a batch, by url
    uncaught,         \* invocations in which an exception escaped every handler
    openDocuments,    \* the text documents the editor holds open
    debounceTimers,   \* extension.ts debounceTimers: the documents with a pending timer
    diagnosticCollection,  \* DiagnosticsManager.diagnosticCollection: document -> diagnostics
    processing,       \* every processDocument call that reached validateUrls, by batch
    disposed          \* whether the subscriptions of activate() were disposed

validatorVars == <<maxConcurrent, abortController, aborted, batch, val, uncaught>>
extensionVars == <<openDocuments, debounceTimers, diagnosticCollection, processing, disposed>>
vars == <<now, ttlMs, cache, ret, maxConcurrent, abortController, aborted, batch, val, uncaught,
          openDocuments, debounceTimers, diagnosticCollection, processing, disposed>>

(***************************************************************************)
(* Bounds of the model.                                                    *)
(***************************************************************************)
MaxTtlMinutes == 1
MaxMinutes == 2
\* the requests of one probe are counted up to MaxChain
MaxChain == 7

(***************************************************************************)
(* Values.                                                                 *)
(***************************************************************************)
UrlA == "http://cdn.a/x.png"
UrlB == "http://cdn.b/y.png"
\* a string that new URL() rejects
UrlBad == "cdn.c/z.png"

Urls == {UrlA, UrlB}

Undefined == [undefined |-> TRUE]

\* ttlMinutes * 60 * 1000
MsPerMinute == 60 * 1000

\* The clock readings the model draws from: every whole minute and the ms after it,
\* so that ages of ttl - 1, ttl and ttl + 1 all occur.
Instants == { m * MsPerMinute + e : m \in 0..MaxMinutes, e \in {0, 1} }

\* Omit<CacheEntry, 'timestamp'> values handed to set() by a direct caller.
SampleResults ==
    { [isValid |-> TRUE, statusCode |-> 200, statusText |-> "OK"],
      [isValid |-> FALSE, error |-> "Request timeout"] }

(***************************************************************************)
(* UrlCache                                                                *)
(***************************************************************************)
\* An entry counted as expired already at the age of exactly ttl.
IsExpired_AtTtl(entry, t, ttl) == t - entry.timestamp >= ttl

\* cache.ts:31  Date.now() - entry.timestamp > this.ttlMs
IsExpired(entry, t, ttl) == t - entry.timestamp > ttl

\* The value get(url) returns.
UrlCache_getValue(c, url, t, ttl) ==
    IF url \notin DOMAIN c THEN Undefined
    ELSE IF IsExpired(c[url], t, ttl) THEN Undefined
    ELSE c[url]

\* A get that refreshes the timestamp of the entry it returns.
UrlCache_getMap_Touch(c, url, t, ttl) ==
    IF url \notin DOMAIN c THEN c
    ELSE IF IsExpired(c[url], t, ttl) THEN [u \in DOMAIN c \ {url} |-> c[u]]
    ELSE [c EXCEPT ![url].timestamp = t]

\* The map get(url) leaves behind.
UrlCache_getMap(c, url, t, ttl) ==
    IF url \notin DOMAIN c THEN c
    ELSE IF IsExpired(c[url], t, ttl) THEN [u \in DOMAIN c \ {url} |-> c[u]]
    ELSE c

\* { ...result, timestamp: Date.now() }
WithTimestamp(result, t) ==
    [f \in DOMAIN result \cup {"timestamp"} |->
        IF f = "timestamp" THEN t ELSE result[f]]

UrlCache_setMap(c, url, result, t) ==
    [u \in DOMAIN c \cup {url} |-> IF u = url THEN WithTimestamp(result, t) ELSE c[u]]

\* A cleanup that stops after the first entry it deletes.
UrlCache_cleanupMap_FirstOnly(c, t, ttl) ==
    LET expired == {v \in DOMAIN c : t - c[v].timestamp > ttl}
    IN  IF expired = {} THEN c
        ELSE [u \in DOMAIN c \ {CHOOSE v \in expired : TRUE} |-> c[u]]

UrlCache_cleanupMap(c, t, ttl) ==
    [u \in {v \in DOMAIN c : ~(t - c[v].timestamp > ttl)} |-> c[u]]

EmptyMap == [u \in {} |-> Undefined]

NoCall == [op |-> "none"]

\* ---- the cache API as actions (a direct caller of UrlCache) ----
CacheGet(url) ==
    /\ ret' = [op |-> "get", url |-> url, value |-> UrlCache_getValue(cache, url, now, ttlMs),
               pre |-> cache, at |-> now]
    /\ cache' = UrlCache_getMap(cache, url, now, ttlMs)
    /\ UNCHANGED <<now, ttlMs>>
    /\ UNCHANGED validatorVars
    /\ UNCHANGED extensionVars

CacheHas(url) ==
    /\ ret' = [op |-> "has", url |-> url,
               value |-> (UrlCache_getValue(cache, url, now, ttlMs) # Undefined),
               pre |-> cache, at |-> now]
    /\ cache' = UrlCache_getMap(cache, url, now, ttlMs)
    /\ UNCHANGED <<now, ttlMs>>
    /\ UNCHANGED validatorVars
    /\ UNCHANGED extensionVars

CacheSet(url, result) ==
    /\ cache' = UrlCache_setMap(cache, url, result, now)
    /\ ret' = [op |-> "set", url |-> url, pre |-> cache, at |-> now]
    /\ UNCHANGED <<now, ttlMs>>
    /\ UNCHANGED validatorVars
    /\ UNCHANGED extensionVars

CacheClear ==
    /\ cache' = EmptyMap
    /\ ret' = [op |-> "clear", pre |-> cache, at |-> now]
    /\ UNCHANGED <<now, ttlMs>>
    /\ UNCHANGED validatorVars
    /\ UNCHANGED extensionVars

CacheCleanup ==
    /\ cache' = UrlCache_cleanupMap(cache, now, ttlMs)
    /\ ret' = [op |-> "cleanup", pre |-> cache, at |-> now]
    /\ UNCHANGED <<now, ttlMs>>
    /\ UNCHANGED validatorVars
    /\ UNCHANGED extensionVars

\* Date.now() moves on.
TickTo(t) ==
    /\ t > now
    /\ now' = t
    /\ UNCHANGED <<ttlMs, cache, ret>>
    /\ UNCHANGED validatorVars
    /\ UNCHANGED extensionVars

(***************************************************************************)
(* Strings that the code searches are sequences of characters.             *)
(***************************************************************************)
\* "accessdenied"
M_accessdenied ==
    <<"a","c","c","e","s","s","d","e","n","i","e","d">>

\* "nosuchkey"
M_nosuchkey ==
    <<"n","o","s","u","c","h","k","e","y">>

\* "not found"
M_not_found ==
    <<"n","o","t"," ","f","o","u","n","d">>

\* "does not exist"
M_does_not_exist ==
    <<"d","o","e","s"," ","n","o","t"," ","e","x","i","s","t">>

\* "<error>"
M_error_tag ==
    <<"<","e","r","r","o","r",">">>

\* "the specified key does not exist"
M_specified_key ==
    <<"t","h","e"," ","s","p","e","c","i","f","i","e","d"," ","k","e","y"," ","d","o","e","s",
      " ","n","o","t"," ","e","x","i","s","t">>

\* "xml"
S_xml ==
    <<"x","m","l">>

\* "text/html"
S_text_html ==
    <<"t","e","x","t","/","h","t","m","l">>

\* "application/xml"
CT_application_xml ==
    <<"a","p","p","l","i","c","a","t","i","o","n","/","x","m","l">>

\* "text/html; charset=utf-8"
CT_text_html ==
    <<"t","e","x","t","/","h","t","m","l",";"," ","c","h","a","r","s","e","t","=","u","t","f",
      "-","8">>

\* "application/octet-stream"
CT_octet_stream ==
    <<"a","p","p","l","i","c","a","t","i","o","n","/","o","c","t","e","t","-","s","t","r","e",
      "a","m">>

\* "<Error><Code>NoSuchKey</Code></Error>"
Body_NoSuchKey ==
    <<"<","E","r","r","o","r",">","<","C","o","d","e",">","N","o","S","u","c","h","K","e","y",
      "<","/","C","o","d","e",">","<","/","E","r","r","o","r",">">>

\* "<html>Hello</html>"
Body_Html ==
    <<"<","h","t","m","l",">","H","e","l","l","o","<","/","h","t","m","l",">">>

Body_Empty == <<>>

\* "text/xml"
CT_text_xml ==
    <<"t","e","x","t","/","x","m","l">>

\* "image/svg+xml"
CT_svg_xml ==
    <<"i","m","a","g","e","/","s","v","g","+","x","m","l">>

\* "text/plain"
CT_text_plain ==
    <<"t","e","x","t","/","p","l","a","i","n">>

\* "TEXT/HTML"
CT_TEXT_HTML ==
    <<"T","E","X","T","/","H","T","M","L">>

\* "application/XML"
CT_application_XML ==
    <<"a","p","p","l","i","c","a","t","i","o","n","/","X","M","L">>

\* "text/htm"
CT_text_htm ==
    <<"t","e","x","t","/","h","t","m">>

\* "notfound"
Body_notfound ==
    <<"n","o","t","f","o","u","n","d">>

\* "no such key"
Body_no_such_key ==
    <<"n","o"," ","s","u","c","h"," ","k","e","y">>

\* "<error"
Body_error_open ==
    <<"<","e","r","r","o","r">>

\* "access denied"
Body_access_denied ==
    <<"a","c","c","e","s","s"," ","d","e","n","i","e","d">>

\* "does not exis"
Body_does_not_exis ==
    <<"d","o","e","s"," ","n","o","t"," ","e","x","i","s">>

\* "The specified key exists"
Body_key_exists ==
    <<"T","h","e"," ","s","p","e","c","i","f","i","e","d"," ","k","e","y"," ","e","x",
      "i","s","t","s">>

\* "<Code>"
Pad_Code ==
    <<"<","C","o","d","e",">">>

\* "</Message>"
Pad_Message ==
    <<"<","/","M","e","s","s","a","g","e",">">>

\* Bodies are built around a marker written in lower case, in upper case or capitalized.
UpperChar(ch) ==
    CASE ch = "a" -> "A" [] ch = "b" -> "B" [] ch = "c" -> "C" [] ch = "d" -> "D"
      [] ch = "e" -> "E" [] ch = "f" -> "F" [] ch = "g" -> "G" [] ch = "h" -> "H"
      [] ch = "i" -> "I" [] ch = "j" -> "J" [] ch = "k" -> "K" [] ch = "l" -> "L"
      [] ch = "m" -> "M" [] ch = "n" -> "N" [] ch = "o" -> "O" [] ch = "p" -> "P"
      [] ch = "q" -> "Q" [] ch = "r" -> "R" [] ch = "s" -> "S" [] ch = "t" -> "T"
      [] ch = "u" -> "U" [] ch = "v" -> "V" [] ch = "w" -> "W" [] ch = "x" -> "X"
      [] ch = "y" -> "Y" [] ch = "z" -> "Z"
      [] OTHER -> ch

toUpperCase(s) == [i \in 1..Len(s) |-> UpperChar(s[i])]

Capitalized(s) == [i \in 1..Len(s) |-> IF i = 1 THEN UpperChar(s[i]) ELSE s[i]]

Markers ==
    {M_accessdenied, M_nosuchkey, M_not_found, M_does_not_exist, M_error_tag, M_specified_key}

Pads == {<<>>, Pad_Code, Pad_Message}

\* Bodies that hold a marker, in any of the three spellings, with text around it.
BodiesWithMarker ==
    { pre \o spelled \o post :
        pre \in Pads, post \in Pads,
        spelled \in UNION { {m, toUpperCase(m), Capitalized(m)} : m \in Markers } }

\* Bodies that hold none: empty, ordinary pages, and near misses of each marker.
BodiesWithoutMarker ==
    {Body_Empty, Body_Html, Body_notfound, Body_no_such_key, Body_error_open,
     Body_access_denied, Body_does_not_exis, Body_key_exists}

\* String.prototype.toLowerCase, character by character (the ASCII letters).
LowerChar(ch) ==
    CASE ch = "A" -> "a" [] ch = "B" -> "b" [] ch = "C" -> "c" [] ch = "D" -> "d"
      [] ch = "E" -> "e" [] ch = "F" -> "f" [] ch = "G" -> "g" [] ch = "H" -> "h"
      [] ch = "I" -> "i" [] ch = "J" -> "j" [] ch = "K" -> "k" [] ch = "L" -> "l"
      [] ch = "M" -> "m" [] ch = "N" -> "n" [] ch = "O" -> "o" [] ch = "P" -> "p"
      [] ch = "Q" -> "q" [] ch = "R" -> "r" [] ch = "S" -> "s" [] ch = "T" -> "t"
      [] ch = "U" -> "u" [] ch = "V" -> "v" [] ch = "W" -> "w" [] ch = "X" -> "x"
      [] ch = "Y" -> "y" [] ch = "Z" -> "z"
      [] OTHER -> ch

\* A search that forgets to lower-case the body.
toLowerCase_Identity(s) == s

toLowerCase(s) == [i \in 1..Len(s) |-> LowerChar(s[i])]

\* String.prototype.includes
includes(s, sub) ==
    \E i \in 1..(Len(s) - Len(sub) + 1) : SubSeq(s, i, i + Len(sub) - 1) = sub

(***************************************************************************)
(* isCdnErrorResponse                                                      *)
(***************************************************************************)
isCdnErrorResponse(response) ==
    LET contentType == response.contentType
        data == response.body
    IN  IF includes(contentType, S_xml) \/ includes(contentType, S_text_html)
        THEN LET lowerData == toLowerCase(data)
             IN  \/ includes(lowerData, M_accessdenied)
                 \/ includes(lowerData, M_nosuchkey)
                 \/ includes(lowerData, M_not_found)
                 \/ includes(lowerData, M_does_not_exist)
                 \/ includes(lowerData, M_error_tag)
                 \/ includes(lowerData, M_specified_key)
        ELSE FALSE

(***************************************************************************)
(* HTTP responses and transport errors                                     *)
(***************************************************************************)
BROKEN_STATUS_CODES == {404, 410}

\* res.statusMessage as the server sends it with the status.
StatusMessage(code) ==
    CASE code = 101 -> "Switching Protocols"
      [] code = 200 -> "OK"
      [] code = 301 -> "Moved Permanently"
      [] code = 403 -> "Forbidden"
      [] code = 404 -> "Not Found"
      [] code = 405 -> "Method Not Allowed"
      [] code = 410 -> "Gone"
      [] code = 500 -> "Internal Server Error"
      [] OTHER -> ""

\* What a server answers: status, content-type header, location header, body.
\* A header the server did not send is the empty string, as falsy as undefined is
\* where the code reads it (headers['content-type'] || '', ... && res.headers.location).
NoHeader == <<>>
NoLocation == ""

Response(code, contentType, location, body) ==
    [statusCode |-> code, statusText |-> StatusMessage(code),
     contentType |-> contentType, location |-> location, body |-> body]

PlainResponse(code) == Response(code, NoHeader, NoLocation, Body_Empty)

\* Location headers: one that new URL(location, url) resolves, one on which it throws,
\* and one that leads back to the url the chain of UrlA started from.
LocationOk == "/moved"
LocationBad == "http://"
LocationBack == "/x.png"

\* new URL(url) succeeds
ParsesAsUrl(url) == url # UrlBad

\* new URL(location, url) succeeds
ResolvesAgainst(location, url) == location # LocationBad

\* new URL(url).origin, for the urls of the model
Origin(url) == IF url \in {UrlA, "http://cdn.a/moved"} THEN "http://cdn.a" ELSE "http://cdn.b"

\* new URL(location, url).href for a location that resolves: the path under the origin
\* of url.
Href(location, url) ==
    IF Origin(url) = "http://cdn.a"
    THEN (IF location = LocationBack THEN UrlA ELSE "http://cdn.a/moved")
    ELSE (IF location = LocationBack THEN "http://cdn.b/x.png" ELSE "http://cdn.b/moved")

Err(message) == [message |-> message]

MsgCancelled == "Request cancelled"
MsgTimeout == "Request timeout"
MsgInvalidUrl == "Invalid URL"
MsgHangUp == "socket hang up"
MsgNotFound == "getaddrinfo ENOTFOUND cdn.a"
MsgRefused == "connect ECONNREFUSED 10.0.0.1:80"

MsgReset == "read ECONNRESET"

\* The characters of a message (the empty message has none).
Chars(message) ==
    CASE message = MsgCancelled ->
            <<"R","e","q","u","e","s","t"," ","c","a","n","c","e","l","l","e","d">>
      [] message = MsgTimeout ->
            <<"R","e","q","u","e","s","t"," ","t","i","m","e","o","u","t">>
      [] message = MsgInvalidUrl ->
            <<"I","n","v","a","l","i","d"," ","U","R","L">>
      [] message = MsgHangUp ->
            <<"s","o","c","k","e","t"," ","h","a","n","g"," ","u","p">>
      [] message = MsgNotFound ->
            <<"g","e","t","a","d","d","r","i","n","f","o"," ","E","N","O","T","F","O",
              "U","N","D"," ","c","d","n",".","a">>
      [] message = MsgRefused ->
            <<"c","o","n","n","e","c","t"," ","E","C","O","N","N","R","E","F","U","S",
              "E","D"," ","1","0",".","0",".","0",".","1",":","8","0">>
      [] message = MsgReset ->
            <<"r","e","a","d"," ","E","C","O","N","N","R","E","S","E","T">>
      [] message = "ENOTFOUND" ->
            <<"E","N","O","T","F","O","U","N","D">>
      [] message = "ECONNREFUSED" ->
            <<"E","C","O","N","N","R","E","F","U","S","E","D">>
      [] OTHER -> <<>>

\* A test for the message being the code rather than containing it.
MessageIncludes_Exact(message, code) == Chars(message) = Chars(code)

\* error.message.includes(code)
MessageIncludes(message, code) == includes(Chars(message), Chars(code))

\* A thrown value that is not an Error.
Thrown(value) == [thrown |-> value]

\* error instanceof Error
IsError(error) == "message" \in DOMAIN error

(***************************************************************************)
(* LinkValidator: the pure parts                                           *)
(***************************************************************************)
StatusResult(url, isValid, statusCode, statusText) ==
    [url |-> url, isValid |-> isValid, statusCode |-> statusCode, statusText |-> statusText]

ErrorResult(url, isValid, error) ==
    [url |-> url, isValid |-> isValid, error |-> error]

\* validateUrl on a cache hit: the stored fields under the url.
CachedResult(url, entry) ==
    [f \in (DOMAIN entry \ {"timestamp"}) \cup {"url"} |->
        IF f = "url" THEN url ELSE entry[f]]

\* A result without its url: what cacheAndReturn and handleError hand to cache.set.
WithoutUrl(result) == [f \in DOMAIN result \ {"url"} |-> result[f]]

\* A success range that reaches up to the server errors.
InSuccessRange_Below500(code) == code >= 200 /\ code < 500

\* response.statusCode >= 200 && response.statusCode < 400
InSuccessRange(code) == code >= 200 /\ code < 400

\* validateUrl goes on to the GET probe.
EscalateToGet == [escalate |-> "GET"]

\* validateUrl after the HEAD probe resolved: the result, or EscalateToGet.
AfterHead(url, response) ==
    IF InSuccessRange(response.statusCode)
    THEN StatusResult(url, TRUE, response.statusCode, response.statusText)
    ELSE IF response.statusCode \in BROKEN_STATUS_CODES
    THEN StatusResult(url, FALSE, response.statusCode, response.statusText)
    ELSE IF response.statusCode = 403 \/ response.statusCode = 405
    THEN EscalateToGet
    ELSE StatusResult(url, InSuccessRange(response.statusCode),
                      response.statusCode, response.statusText)

\* The GET branch without the look at the body: every 403 counts as protected.
AfterGet_NoCdnCheck(url, response) ==
    IF InSuccessRange(response.statusCode) \/ response.statusCode = 403
    THEN StatusResult(url, TRUE, response.statusCode,
                      IF response.statusCode = 403 THEN "Protected" ELSE response.statusText)
    ELSE StatusResult(url, FALSE, response.statusCode, response.statusText)

\* validateUrl after the GET probe resolved.
AfterGet(url, response) ==
    IF InSuccessRange(response.statusCode)
    THEN StatusResult(url, TRUE, response.statusCode, response.statusText)
    ELSE IF response.statusCode = 403
    THEN IF isCdnErrorResponse(response)
         THEN StatusResult(url, FALSE, response.statusCode, "Not Found (CDN)")
         ELSE StatusResult(url, TRUE, response.statusCode, "Protected")
    ELSE StatusResult(url, InSuccessRange(response.statusCode),
                      response.statusCode, response.statusText)

\* handleError without a test for the cancellation message.
handleErrorIsCancel_Never(error) == FALSE

\* handleError: error.message === 'Request cancelled'
handleErrorIsCancel(error) == IsError(error) /\ error.message = MsgCancelled

\* handleError writing the cache before it looks at the kind of error.
handleErrorWrites_Always(error) == TRUE

\* handleError returning its outcome without storing it.
handleErrorWrites_Never(error) == FALSE

\* handleError: whether it reaches this.cache.set (the cancelled case returns before it).
handleErrorWrites(error) == ~handleErrorIsCancel(error)

handleErrorMessage(error) ==
    IF ~IsError(error) THEN "Unknown error"
    ELSE IF error.message = MsgTimeout THEN "Request timeout"
    ELSE IF MessageIncludes(error.message, "ENOTFOUND") THEN "Domain not found"
    ELSE IF MessageIncludes(error.message, "ECONNREFUSED") THEN "Connection refused"
    ELSE IF error.message # "" THEN error.message
    ELSE "Network error"

\* handleError without its cancellation case.
handleErrorResult_NoCancelCase(url, error) ==
    ErrorResult(url, FALSE, handleErrorMessage(error))

handleErrorResult(url, error) ==
    IF handleErrorIsCancel(error)
    THEN ErrorResult(url, TRUE, "Request cancelled")
    ELSE ErrorResult(url, FALSE, handleErrorMessage(error))

\* The axios transport. An AxiosError is an Error that carries a code; a CanceledError is
\* the AxiosError that axios.isCancel recognises.
AxiosErr(code, message, isCanceledError) ==
    [message |-> message, code |-> code, isCanceledError |-> isCanceledError]

MsgAxiosTimeout == "timeout of 5000ms exceeded"
MsgCanceled == "canceled"

\* error instanceof AxiosError
IsAxiosError(error) == "code" \in DOMAIN error

\* axios.isCancel(error)
axiosIsCancel(error) == IsAxiosError(error) /\ error.isCanceledError

\* handleError of the axios transport: the two returns of the cancelled outcome.
axiosHandleErrorIsCancel(error) ==
    \/ axiosIsCancel(error)
    \/ IsAxiosError(error) /\ error.code = "ERR_CANCELED"

\* handleError of the axios transport: errorMessage, chosen by error.code.
axiosHandleErrorMessage(error) ==
    IF ~IsAxiosError(error) THEN "Unknown error"
    ELSE IF error.code = "ECONNABORTED" THEN "Request timeout"
    ELSE IF error.code = "ENOTFOUND" THEN "Domain not found"
    ELSE IF error.code = "ECONNREFUSED" THEN "Connection refused"
    ELSE IF error.message # "" THEN error.message
    ELSE "Network error"

axiosHandleErrorResult(url, error) ==
    IF axiosHandleErrorIsCancel(error)
    THEN ErrorResult(url, TRUE, "Request cancelled")
    ELSE ErrorResult(url, FALSE, axiosHandleErrorMessage(error))

\* No deduplication at all.
uniqueUrlsOf_Identity(urls) == urls

\* [...new Set(urls)]: the distinct urls in order of first occurrence.
RECURSIVE uniqueUrlsOf(_)
uniqueUrlsOf(urls) ==
    IF urls = <<>> THEN <<>>
    ELSE LET init == uniqueUrlsOf(SubSeq(urls, 1, Len(urls) - 1))
             last == urls[Len(urls)]
         IN  IF \E k \in 1..Len(init) : init[k] = last THEN init ELSE Append(init, last)

\* A window that stops one short of its end.
slice_OneShort(s, i, n) == SubSeq(s, i + 1, (IF i + n < Len(s) THEN i + n ELSE Len(s)) - 1)

\* uniqueUrls.slice(i, i + maxConcurrent), i counted from 0.
slice(s, i, n) == SubSeq(s, i + 1, IF i + n < Len(s) THEN i + n ELSE Len(s))

(***************************************************************************)
(* State of a validateUrl invocation and of a validateUrls call            *)
(***************************************************************************)
\* pc      where validateUrl stands: "idle" (not invoked), "HEAD" / "GET" (awaiting that
\*         probe), "done" (returned its result)
\* promise the promise makeRequest returned to validateUrl: "pending", "resolved", "rejected"
\* value   the response it resolved with or the error it rejected with
\* reqs    the requests the current probe has issued (the first and one per redirect followed)
\* url     the url of the latest request of the probe
\* method  the method of the probe's requests
\* wire    the latest request of the probe: "open" (awaiting its response), "stalled" (its
\*         response callback threw), "body" (a GET whose response callback registered the
\*         'data' and 'end' handlers), "dead" (the connection was closed before the end
\*         of the body: no event of the request is left), "closed"
\* res     the response whose body the 'data' handler is collecting
\* cause   the event that settled the promise
\* wrote   whether the invocation called cache.set
\* calls   how many times validateUrl was invoked for the url in the batch
\* head, get  the responses the HEAD and the GET probe resolved with
IdleV ==
    [pc |-> "idle", promise |-> "none", value |-> Undefined, reqs |-> 0, url |-> "",
     method |-> "", wire |-> "closed", res |-> Undefined,
     result |-> Undefined, cause |-> "none", wrote |-> FALSE, calls |-> 0,
     head |-> Undefined, get |-> Undefined]

NewBatch == [st |-> "new", urls |-> <<>>, uniqueUrls |-> <<>>, i |-> 0, results |-> <<>>]

\* resolve(x) / reject(e) of a promise: the first settlement wins.
Resolve(v, response) ==
    IF v.promise = "pending"
    THEN [v EXCEPT !.promise = "resolved", !.value = response, !.cause = "response"]
    ELSE v

Reject(v, error, cause) ==
    IF v.promise = "pending"
    THEN [v EXCEPT !.promise = "rejected", !.value = error, !.cause = cause]
    ELSE v

(***************************************************************************)
(* makeRequest                                                             *)
(***************************************************************************)
\* A makeRequest that does not look at the signal before it issues the request.
makeRequest_NoAbortedTest(v, url, signalAborted) ==
    IF ~ParsesAsUrl(url)
    THEN [Reject(v, Err(MsgInvalidUrl), "invalid-url") EXCEPT !.wire = "closed"]
    ELSE [v EXCEPT !.reqs = IF @ < MaxChain THEN @ + 1 ELSE @, !.url = url, !.wire = "open"]

\* The executor of makeRequest, from its first line to req.end(): v is the invocation
\* whose promise chain the call belongs to. reqs counts the requests of the chain, up to
\* MaxChain (the program keeps no count of them).
makeRequest(v, url, signalAborted) ==
    IF signalAborted
    THEN [Reject(v, Err(MsgCancelled), "abort") EXCEPT !.wire = "closed"]
    ELSE IF ~ParsesAsUrl(url)
    THEN [Reject(v, Err(MsgInvalidUrl), "invalid-url") EXCEPT !.wire = "closed"]
    ELSE [v EXCEPT !.reqs = IF @ < MaxChain THEN @ + 1 ELSE @, !.url = url, !.wire = "open"]

\* (options as {_redirectCount?: number})._redirectCount || 0, read from the options object
\* that this very call of makeRequest built: no call ever finds the property set.
redirectCount(v) == 0

MaxRedirects == 5

IsRedirect(response) ==
    /\ response.statusCode >= 300 /\ response.statusCode < 400
    /\ response.location # NoLocation

\* A handler that destroys the request and leaves the promise as it is.
abortHandler_DestroyOnly(v) ==
    IF v.reqs = 0 THEN v ELSE [v EXCEPT !.wire = "closed", !.res = Undefined]

\* abortHandler, which every request of the probe registered on the signal:
\* req.destroy(); reject(new Error('Request cancelled')).
\* (The 'error' event that destroy() raises afterwards finds the promise settled.)
abortHandler(v) ==
    IF v.reqs = 0 THEN v
    ELSE [Reject(v, Err(MsgCancelled), "abort") EXCEPT !.wire = "closed", !.res = Undefined]

\* AbortController.abort(): the signal's listeners run, synchronously.
AbortBatch(vs, b) == [vs EXCEPT ![b] = [u \in DOMAIN vs[b] |-> abortHandler(vs[b][u])]]

(***************************************************************************)
(* validateUrl, up to its first await                                      *)
(***************************************************************************)
validateUrlStart(c, url, t, ttl, signalAborted) ==
    LET cached == UrlCache_getValue(c, url, t, ttl)
    IN  IF cached # Undefined
        THEN [IdleV EXCEPT !.pc = "done", !.result = CachedResult(url, cached),
                           !.cause = "cache", !.calls = 1]
        ELSE makeRequest([IdleV EXCEPT !.pc = "HEAD", !.method = "HEAD",
                                       !.promise = "pending", !.calls = 1],
                         url, signalAborted)

\* batch.map(url => this.validateUrl(url, signal)): the cache after the lookups.
RECURSIVE DispatchCache(_, _, _, _)
DispatchCache(c, window, t, ttl) ==
    IF window = <<>> THEN c
    ELSE DispatchCache(UrlCache_getMap(c, Head(window), t, ttl), Tail(window), t, ttl)

InWindow(window, u) == \E k \in 1..Len(window) : window[k] = u

Occurrences(window, u) == Cardinality({k \in 1..Len(window) : window[k] = u})

\* The invocations of batch b after a window was dispatched.
DispatchVal(vb, c, window, t, ttl, signalAborted) ==
    [u \in DOMAIN vb |->
        IF InWindow(window, u)
        THEN [validateUrlStart(c, u, t, ttl, signalAborted)
                EXCEPT !.calls = vb[u].calls + Occurrences(window, u)]
        ELSE vb[u]]

(***************************************************************************)
(* LinkValidator: the operations                                           *)
(***************************************************************************)
MaxBatches == 2
MaxConcurrent == 2
MaxLen == 3

Batches == 1..MaxBatches
AllUrls == Urls \cup {UrlBad}

RECURSIVE SeqsUpTo(_, _)
SeqsUpTo(S, n) ==
    IF n = 0 THEN {<<>>}
    ELSE LET shorter == SeqsUpTo(S, n - 1)
         IN  shorter \cup {Append(s, x) : s \in {q \in shorter : Len(q) = n - 1}, x \in S}

\* The results of a window, in the window's order (what Promise.all resolves with).
WindowResults(vb, window) == [k \in 1..Len(window) |-> vb[window[k]].result]

\* The loop without its break.
loopContinues_NoBreak(i, length, signalAborted) == i < length

\* The for loop of validateUrls: i < uniqueUrls.length and no break on signal.aborted.
loopContinues(i, length, signalAborted) == i < length /\ ~signalAborted

\* cancel() that drops the controller without aborting it.
cancelSignals_NoAbort(controller, signals) == signals

\* cancel(): the aborted signals after it, given the controller it finds.
cancelSignals(controller, signals) ==
    IF controller # 0 THEN signals \cup {controller} ELSE signals

\* The for loop of validateUrls from the test of i on: leave the loop, or dispatch the
\* window at i.
LoopFrom(b, bt, vs, c, signalAborted) ==
    IF ~loopContinues(bt.i, Len(bt.uniqueUrls), signalAborted)
    THEN /\ batch' = [batch EXCEPT ![b] = [bt EXCEPT !.st = "done"]]
         /\ val' = vs
         /\ cache' = c
    ELSE LET window == slice(bt.uniqueUrls, bt.i, maxConcurrent)
         IN  /\ batch' = [batch EXCEPT ![b] = bt]
             /\ val' = [vs EXCEPT ![b] = DispatchVal(vs[b], c, window, now, ttlMs, signalAborted)]
             /\ cache' = DispatchCache(c, window, now, ttlMs)

\* validateUrls without its early return.
emptyInput_Never(urls) == FALSE

\* validateUrls: urls.length === 0
emptyInput(urls) == Len(urls) = 0

\* cancel()
Cancel ==
    /\ abortController # 0
    /\ aborted' = cancelSignals(abortController, aborted)
    /\ val' = AbortBatch(val, abortController)
    /\ abortController' = 0
    /\ UNCHANGED <<now, ttlMs, cache, ret, maxConcurrent, batch, uncaught, extensionVars>>

\* validateUrls(urls), up to its first await: what the call does to the validator.
validateUrls(b, urls) ==
    /\ batch[b].st = "new"
    /\ b > 1 => batch[b - 1].st # "new"
    /\ IF emptyInput(urls)
       THEN /\ batch' = [batch EXCEPT ![b] = [NewBatch EXCEPT !.st = "done"]]
            /\ UNCHANGED <<cache, abortController, aborted, val>>
       ELSE /\ aborted' = cancelSignals(abortController, aborted)
            /\ abortController' = b
            /\ LoopFrom(b,
                        [NewBatch EXCEPT !.st = "running", !.urls = urls,
                                         !.uniqueUrls = uniqueUrlsOf(urls)],
                        IF abortController # 0 THEN AbortBatch(val, abortController) ELSE val,
                        cache, FALSE)

\* validateUrls(urls) called by a direct caller of the validator.
ValidateUrls(b, urls) ==
    /\ validateUrls(b, urls)
    /\ UNCHANGED <<now, ttlMs, ret, maxConcurrent, uncaught, extensionVars>>

CurrentWindow(b) == slice(batch[b].uniqueUrls, batch[b].i, maxConcurrent)

\* Promise.all(batch.map(...)) resolves: every validator of the window has returned.
allSettled(vb, window) == \A k \in 1..Len(window) : vb[window[k]].pc = "done"

\* validateUrls after Promise.all of the window resolved: push the results, go on.
WindowDone(b) ==
    /\ batch[b].st = "running"
    /\ allSettled(val[b], CurrentWindow(b))
    /\ LoopFrom(b,
                [batch[b] EXCEPT !.results = @ \o WindowResults(val[b], CurrentWindow(b)),
                                 !.i = @ + maxConcurrent],
                val, cache, b \in aborted)
    /\ UNCHANGED <<now, ttlMs, ret, maxConcurrent, abortController, aborted, uncaught, extensionVars>>

\* The response callback of the latest request of a probe. A redirect that is followed
\* calls makeRequest again, with the signal of the same batch and the href of the
\* location, which parses; the new call's promise settles the probe's promise through
\* .then(resolve).catch(reject). Otherwise a HEAD resolves at once, and a GET registers
\* its 'data' and 'end' handlers and returns: response is what 'end' will resolve with,
\* its body the text the 'data' handler will have collected by then.
ResponseArrives(b, u, response) ==
    LET v == val[b][u]
    IN  /\ v.wire = "open"
        /\ IF IsRedirect(response) /\ redirectCount(v) < MaxRedirects
           THEN IF ~ResolvesAgainst(response.location, v.url)
                THEN \* new URL(location, url) throws inside the callback
                     /\ uncaught' = uncaught \cup {<<b, u>>}
                     /\ val' = [val EXCEPT ![b][u].wire = "stalled"]
                ELSE /\ val' = [val EXCEPT ![b][u] =
                                    makeRequest(v, Href(response.location, v.url),
                                                b \in aborted)]
                     /\ UNCHANGED uncaught
           ELSE IF v.method = "HEAD"
           THEN /\ val' = [val EXCEPT ![b][u] =
                              [Resolve(v, response) EXCEPT !.wire = "closed"]]
                /\ UNCHANGED uncaught
           ELSE /\ val' = [val EXCEPT ![b][u] = [v EXCEPT !.wire = "body", !.res = response]]
                /\ UNCHANGED uncaught
        /\ UNCHANGED <<now, ttlMs, cache, ret, maxConcurrent, abortController, aborted, batch,
                       extensionVars>>

\* res.on('end') of a GET: resolve with the status, the headers and the collected body.
EndEvent(b, u) ==
    /\ val[b][u].wire = "body"
    /\ val' = [val EXCEPT ![b][u] =
                  [Resolve(val[b][u], val[b][u].res) EXCEPT !.wire = "closed",
                                                            !.res = Undefined]]
    /\ UNCHANGED <<now, ttlMs, cache, ret, maxConcurrent, abortController, aborted, batch,
                   uncaught, extensionVars>>

\* The server closes the connection before the end of the body, or after the response
\* whose callback threw: the response is aborted, which no handler of the probe listens
\* for, and neither 'end' nor 'error' nor 'timeout' follows.
ConnectionCloses(b, u) ==
    /\ val[b][u].wire \in {"body", "stalled"}
    /\ val' = [val EXCEPT ![b][u] = [@ EXCEPT !.wire = "dead", !.res = Undefined]]
    /\ UNCHANGED <<now, ttlMs, cache, ret, maxConcurrent, abortController, aborted, batch,
                   uncaught, extensionVars>>

\* req.on('timeout') of the latest request: req.destroy(); reject('Request timeout').
TimeoutEvent(b, u) ==
    /\ val[b][u].wire \in {"open", "stalled", "body"}
    /\ val' = [val EXCEPT ![b][u] =
                  [Reject(val[b][u], Err(MsgTimeout), "timeout") EXCEPT !.wire = "closed",
                                                                        !.res = Undefined]]
    /\ UNCHANGED <<now, ttlMs, cache, ret, maxConcurrent, abortController, aborted, batch,
                   uncaught, extensionVars>>

\* req.on('timeout') of an earlier request of the chain, whose redirect response was
\* never consumed: its rejection reaches the probe's promise through .catch(reject), and
\* the latest request stays as it is.
EarlierHopTimeout(b, u) ==
    /\ val[b][u].wire # "closed"
    /\ val[b][u].reqs > 1
    /\ val[b][u].promise = "pending"
    /\ val' = [val EXCEPT ![b][u] = Reject(val[b][u], Err(MsgTimeout), "timeout")]
    /\ UNCHANGED <<now, ttlMs, cache, ret, maxConcurrent, abortController, aborted, batch,
                   uncaught, extensionVars>>

\* req.on('error') of the latest request, which stays registered after the response.
ErrorEvent(b, u, message) ==
    /\ val[b][u].wire \in {"open", "stalled", "body"}
    /\ val' = [val EXCEPT ![b][u] =
                  [Reject(val[b][u], Err(message), "error") EXCEPT !.wire = "closed",
                                                                   !.res = Undefined]]
    /\ UNCHANGED <<now, ttlMs, cache, ret, maxConcurrent, abortController, aborted, batch,
                   uncaught, extensionVars>>

\* req.on('error') of an earlier request of the chain: the rejection reaches the probe's
\* promise through .catch(reject), and the latest request stays as it is.
EarlierHopError(b, u, message) ==
    /\ val[b][u].wire # "closed"
    /\ val[b][u].reqs > 1
    /\ val[b][u].promise = "pending"
    /\ val' = [val EXCEPT ![b][u] = Reject(val[b][u], Err(message), "error")]
    /\ UNCHANGED <<now, ttlMs, cache, ret, maxConcurrent, abortController, aborted, batch,
                   uncaught, extensionVars>>

\* cacheAndReturn / handleError: the invocation returns result, after cache.set when
\* write holds.
Return(b, u, result, write) ==
    /\ val' = [val EXCEPT ![b][u] =
                  [@ EXCEPT !.pc = "done", !.result = result,
                            !.promise = "none", !.value = Undefined, !.wrote = write,
                            !.head = IF @ = Undefined /\ val[b][u].promise = "resolved"
                                     THEN val[b][u].value ELSE @,
                            !.get = IF val[b][u].pc = "GET" /\ val[b][u].promise = "resolved"
                                    THEN val[b][u].value ELSE @]]
    /\ cache' = IF write THEN UrlCache_setMap(cache, u, WithoutUrl(result), now) ELSE cache

\* validateUrl resumes after the awaited probe settled. The settlement and the
\* resumption are two steps, as the await makes them; other handlers may run in between,
\* which covers every order in which the event loop can run them.
Continue(b, u) ==
    LET v == val[b][u]
    IN  /\ v.pc \in {"HEAD", "GET"}
        /\ v.promise \in {"resolved", "rejected"}
        /\ IF v.promise = "rejected"
           THEN Return(b, u, handleErrorResult(u, v.value), handleErrorWrites(v.value))
           ELSE IF v.pc = "HEAD" /\ AfterHead(u, v.value) = EscalateToGet
           THEN /\ val' = [val EXCEPT ![b][u] =
                            makeRequest([v EXCEPT !.pc = "GET", !.method = "GET",
                                                  !.promise = "pending",
                                                  !.value = Undefined, !.reqs = 0,
                                                  !.cause = "none", !.head = v.value],
                                        u, b \in aborted)]
                /\ UNCHANGED cache
           ELSE Return(b, u, IF v.pc = "HEAD" THEN AfterHead(u, v.value)
                             ELSE AfterGet(u, v.value), TRUE)
        /\ UNCHANGED <<now, ttlMs, ret, maxConcurrent, abortController, aborted, batch,
                       uncaught, extensionVars>>

(***************************************************************************)
(* DiagnosticsManager (src/src/diagnosticsManager.ts)                      *)
(***************************************************************************)
\* A DetectedUrl of the scanner: range is the place of the occurrence in the text.
DetectedUrl(url, range) == [url |-> url, range |-> range]

\* resultMap.get(url) after the loop of resultMap.set(result.url, result): the last
\* result of the list under url, undefined without one.
resultMapGet(validationResults, url) ==
    LET at == {k \in 1..Len(validationResults) : validationResults[k].url = url}
    IN  IF at = {} THEN Undefined
        ELSE validationResults[CHOOSE k \in at : \A j \in at : j <= k]

\* result.statusCode as a condition: present and not 0.
HasStatusCode(result) == "statusCode" \in DOMAIN result /\ result.statusCode # 0

\* Urls of 60 and of 61 characters, for the display of a warning.
UrlSixty == "http://cdn.a/xxxxxxxxxxxxxxxxxxxxxxxxxxxxxxxxxxxxxxxxxxx.png"
UrlLong == "http://cdn.a/xxxxxxxxxxxxxxxxxxxxxxxxxxxxxxxxxxxxxxxxxxxx.png"
LongUrls == {UrlSixty, UrlLong}

\* The characters of a url.
UrlChars(url) ==
    LET onA == <<"h","t","t","p",":","/","/","c","d","n",".","a","/">>
        onB == <<"h","t","t","p",":","/","/","c","d","n",".","b","/">>
        png == <<".","p","n","g">>
        xs(n) == [k \in 1..n |-> "x"]
    IN  CASE url = UrlA -> onA \o <<"x">> \o png
          [] url = UrlB -> onB \o <<"y">> \o png
          [] url = UrlBad -> <<"c","d","n",".","c","/","z">> \o png
          [] url = UrlSixty -> onA \o xs(43) \o png
          [] url = UrlLong -> onA \o xs(44) \o png

\* truncateUrl(url, maxLength = 60)
maxLength == 60

truncateUrl(url) ==
    LET chars == UrlChars(url)
    IN  IF Len(chars) <= maxLength THEN chars
        ELSE SubSeq(chars, 1, maxLength - 3) \o <<".", ".", ".">>

\* formatDiagnosticMessage: the parts of the message; url is the text displayed.
formatDiagnosticMessage(result) ==
    IF HasStatusCode(result)
    THEN [text |-> "Broken link (status text)", statusCode |-> result.statusCode,
          statusText |-> IF result.statusText = "" THEN "Error" ELSE result.statusText,
          url |-> truncateUrl(result.url)]
    ELSE IF "error" \in DOMAIN result /\ result.error # ""
    THEN [text |-> "Broken link (error)", error |-> result.error,
          url |-> truncateUrl(result.url)]
    ELSE [text |-> "Broken link", url |-> truncateUrl(result.url)]

\* diagnostic.code = result.statusCode || 'ERROR'
diagnosticCode(result) ==
    IF HasStatusCode(result) THEN [number |-> result.statusCode] ELSE [string |-> "ERROR"]

\* new vscode.Diagnostic(detected.range, message, Warning), with source and code.
Diagnostic(detected, result) ==
    [range |-> detected.range, message |-> formatDiagnosticMessage(result),
     severity |-> "Warning", source |-> "Broken Link Detector", code |-> diagnosticCode(result)]

\* A manager that flags every occurrence that has a result.
isFlagged_AnyResult(result) == result # Undefined

\* if (result && !result.isValid)
isFlagged(result) == result # Undefined /\ ~result.isValid

\* updateDiagnostics: the list handed to diagnosticCollection.set(document.uri, ...).
updateDiagnostics(detectedUrls, validationResults) ==
    LET flagged == SelectSeq(detectedUrls,
                             LAMBDA d : isFlagged(resultMapGet(validationResults, d.url)))
    IN  [k \in 1..Len(flagged) |->
            Diagnostic(flagged[k], resultMapGet(validationResults, flagged[k].url))]

(***************************************************************************)
(* The extension (src/unnamed/part_000)                                    *)
(***************************************************************************)
DocA == "file:///site/a.html"
DocB == "file:///site/b.css"
DocNotes == "file:///site/notes.md"
DocLog == "file:///site/build.log"

Documents == {DocA, DocB, DocNotes, DocLog}

\* document.languageId
languageId(document) ==
    CASE document = DocA -> "html"
      [] document = DocB -> "css"
      [] document = DocNotes -> "markdown"
      [] document = DocLog -> "log"

\* getSupportedLanguages(): the ids the documents of the model can have.
supportedLanguages == {"html", "css", "markdown", "plaintext"}

\* scanDocument(document): one asset url in a.html, one in b.css, none elsewhere.
scanDocument(document) ==
    CASE document = DocA -> <<DetectedUrl(UrlA, 1)>>
      [] document = DocB -> <<DetectedUrl(UrlB, 1)>>
      [] OTHER -> <<>>

\* diagnosticCollection.set(document.uri, diagnostics)
setDiagnostics(collection, document, diagnostics) ==
    [d \in DOMAIN collection \cup {document} |->
        IF d = document THEN diagnostics ELSE collection[d]]

\* clearDiagnostics(document): diagnosticCollection.delete(document.uri)
clearDiagnostics(collection, document) ==
    [d \in DOMAIN collection \ {document} |-> collection[d]]

\* What the editor shows for a document: nothing without an entry.
Shown(document) ==
    IF document \in DOMAIN diagnosticCollection THEN diagnosticCollection[document] ELSE <<>>

NotProcessing == [pc |-> "none"]

\* debouncedProcessDocument: clearTimeout of the pending timer, then a new one.
debouncedProcessDocument(timers, document) == timers \cup {document}

\* onDidOpenTextDocument
OpenDocument(document) ==
    /\ ~disposed
    /\ document \notin openDocuments
    /\ openDocuments' = openDocuments \cup {document}
    /\ debounceTimers' = debouncedProcessDocument(debounceTimers, document)
    /\ UNCHANGED <<now, ttlMs, cache, ret, diagnosticCollection, processing, disposed>>
    /\ UNCHANGED validatorVars

\* onDidChangeTextDocument: an edit that leaves the urls of the text as they are.
ChangeDocument(document) ==
    /\ ~disposed
    /\ document \in openDocuments
    /\ debounceTimers' = debouncedProcessDocument(debounceTimers, document)
    /\ UNCHANGED <<now, ttlMs, cache, ret, openDocuments, diagnosticCollection, processing,
                   disposed>>
    /\ UNCHANGED validatorVars

\* onDidCloseTextDocument: clearDiagnostics, then the pending timer is cleared and deleted.
CloseDocument(document) ==
    /\ ~disposed
    /\ document \in openDocuments
    /\ openDocuments' = openDocuments \ {document}
    /\ diagnosticCollection' = clearDiagnostics(diagnosticCollection, document)
    /\ debounceTimers' = debounceTimers \ {document}
    /\ UNCHANGED <<now, ttlMs, cache, ret, processing, disposed>>
    /\ UNCHANGED validatorVars

\* context.subscriptions disposed, when the extension is deactivated: the three listeners,
\* the DiagnosticsManager (dispose(): diagnosticCollection.dispose(), which empties the
\* collection) and the function that clears every debounce timer, debounceTimers.clear(),
\* and calls validator.cancel(). A processDocument call that awaits its batch stays.
Deactivate ==
    /\ ~disposed
    /\ disposed' = TRUE
    /\ diagnosticCollection' = EmptyMap
    /\ debounceTimers' = {}
    /\ aborted' = cancelSignals(abortController, aborted)
    /\ val' = IF abortController # 0 THEN AbortBatch(val, abortController) ELSE val
    /\ abortController' = 0
    /\ UNCHANGED <<now, ttlMs, cache, ret, maxConcurrent, batch, uncaught, openDocuments,
                   processing>>

\* The debounce timer of a document fires: debounceTimers.delete(uri), then
\* processDocument(document) up to its await of validator.validateUrls(urls).
TimerFires(document) ==
    /\ document \in debounceTimers
    /\ debounceTimers' = debounceTimers \ {document}
    /\ IF languageId(document) \notin supportedLanguages
       THEN UNCHANGED <<cache, diagnosticCollection, processing, abortController, aborted,
                        batch, val>>
       ELSE IF Len(scanDocument(document)) = 0
       THEN /\ diagnosticCollection' = clearDiagnostics(diagnosticCollection, document)
            /\ UNCHANGED <<cache, processing, abortController, aborted, batch, val>>
       ELSE \E b \in Batches :
               /\ validateUrls(b, [k \in 1..Len(scanDocument(document)) |->
                                      scanDocument(document)[k].url])
               /\ processing' = [processing EXCEPT ![b] =
                                    [pc |-> "await", document |-> document,
                                     detectedUrls |-> scanDocument(document)]]
               /\ UNCHANGED diagnosticCollection
    /\ UNCHANGED <<now, ttlMs, ret, maxConcurrent, uncaught, openDocuments, disposed>>

\* processDocument resumes after validateUrls resolved:
\* diagnosticsManager.updateDiagnostics(document, detectedUrls, results).
\* What set() does on a collection that was disposed is the editor's: the entry is
\* stored, or set() throws and the catch of the timer callback logs the error.
ProcessDocumentResumes(b) ==
    /\ processing[b].pc = "await"
    /\ batch[b].st = "done"
    /\ \/ diagnosticCollection' =
             setDiagnostics(diagnosticCollection, processing[b].document,
                            updateDiagnostics(processing[b].detectedUrls, batch[b].results))
       \/ disposed /\ UNCHANGED diagnosticCollection
    /\ processing' = [processing EXCEPT ![b].pc = "done"]
    /\ UNCHANGED <<now, ttlMs, cache, ret, openDocuments, debounceTimers, disposed>>
    /\ UNCHANGED validatorVars

\* No editor: the validator and the cache are driven by a direct caller.
InitNoEditor ==
    /\ openDocuments = {}
    /\ debounceTimers = {}
    /\ diagnosticCollection = EmptyMap
    /\ processing = [b \in Batches |-> NotProcessing]
    /\ disposed = FALSE

InitValidator ==
    /\ maxConcurrent \in 1..MaxConcurrent
    /\ abortController = 0
    /\ aborted = {}
    /\ batch = [b \in Batches |-> NewBatch]
    /\ val = [b \in Batches |-> [u \in AllUrls |-> IdleV]]
    /\ uncaught = {}

(***************************************************************************)
(* Specifications                                                          *)
(***************************************************************************)
InitCacheVars ==
    /\ now = 0
    /\ ttlMs \in { m * MsPerMinute : m \in 0..MaxTtlMinutes }
    /\ cache = EmptyMap
    /\ ret = NoCall

\* A direct caller of the UrlCache API.
InitCache == InitCacheVars /\ InitValidator /\ InitNoEditor

NextCache ==
    \/ \E u \in Urls : CacheGet(u)
    \/ \E u \in Urls : CacheHas(u)
    \/ \E u \in Urls, r \in SampleResults : CacheSet(u, r)
    \/ CacheClear
    \/ CacheCleanup
    \/ \E t \in Instants : TickTo(t)

SpecCache == InitCache /\ [][NextCache]_vars

\* Callers of validateUrls and cancel, servers that answer 200 or 404 or not at all.
BatchResponses == {PlainResponse(200), PlainResponse(404)}

\* new UrlCache(): ttlMinutes = 5
DefaultTtlMinutes == 5

\* The extension's cache, whose entries outlive every run of this specification.
InitBatches == InitValidator /\ now = 0 /\ cache = EmptyMap /\ ret = NoCall
               /\ ttlMs = DefaultTtlMinutes * MsPerMinute /\ InitNoEditor

Next ==
    \/ \E b \in Batches, urls \in SeqsUpTo(Urls, MaxLen) : ValidateUrls(b, urls)
    \/ Cancel
    \/ \E b \in Batches : WindowDone(b)
    \/ \E b \in Batches, u \in Urls, r \in BatchResponses : ResponseArrives(b, u, r)
    \/ \E b \in Batches, u \in Urls : TimeoutEvent(b, u)
    \/ \E b \in Batches, u \in Urls : Continue(b, u)

Spec == InitBatches /\ [][Next]_vars

\* One url, probed against servers of every kind: statuses of each class, redirects,
\* CDN error pages, failing transports, and a host that may cancel.
ProbeLists == {<<UrlA>>, <<UrlBad>>}

\* The responses the response callback can be handed: of the statuses below 200 only 101
\* (the http client consumes every other 1xx as informational and goes on waiting).
ProbeResponses ==
    {PlainResponse(code) : code \in {101, 200, 301, 399, 400, 403, 404, 405, 410, 500}}
    \cup {Response(301, NoHeader, LocationOk, Body_Empty),
          Response(301, NoHeader, LocationBad, Body_Empty),
          Response(403, CT_application_xml, NoLocation, Body_NoSuchKey),
          Response(403, CT_octet_stream, NoLocation, Body_NoSuchKey),
          Response(403, CT_text_html, NoLocation, Body_Html)}

ProbeErrors == {MsgNotFound, MsgRefused, MsgHangUp, MsgReset, ""}

\* The one validateUrls call of this specification: the first.
ProbeBatch == CHOOSE b \in Batches : \A c \in Batches : b <= c

InitProbe == InitBatches /\ maxConcurrent = 1

NextProbe ==
    \/ \E urls \in ProbeLists : ValidateUrls(ProbeBatch, urls)
    \/ Cancel
    \/ WindowDone(ProbeBatch)
    \/ \E u \in AllUrls, r \in ProbeResponses :
          /\ IsRedirect(r) => val[ProbeBatch][u].reqs < MaxChain
          /\ ResponseArrives(ProbeBatch, u, r)
    \/ \E u \in AllUrls : TimeoutEvent(ProbeBatch, u)
    \/ \E u \in AllUrls : EarlierHopTimeout(ProbeBatch, u)
    \/ \E u \in AllUrls, m \in ProbeErrors : ErrorEvent(ProbeBatch, u, m)
    \/ \E u \in AllUrls, m \in ProbeErrors : EarlierHopError(ProbeBatch, u, m)
    \/ \E u \in AllUrls : EndEvent(ProbeBatch, u)
    \/ \E u \in AllUrls : ConnectionCloses(ProbeBatch, u)
    \/ \E u \in AllUrls : Continue(ProbeBatch, u)

SpecProbe == InitProbe /\ [][NextProbe]_vars

\* A validator over a cache of any ttl while the clock moves: the entry written by one
\* batch is met by the next one fresh, at the age of ttl, or expired.
ExpiryLists == {<<>>, <<UrlA>>}

NextExpiry ==
    \/ \E b \in Batches, urls \in ExpiryLists : ValidateUrls(b, urls)
    \/ Cancel
    \/ \E b \in Batches : WindowDone(b)
    \/ \E b \in Batches, u \in Urls, r \in BatchResponses : ResponseArrives(b, u, r)
    \/ \E b \in Batches, u \in Urls : Continue(b, u)
    \/ \E t \in Instants : TickTo(t)

SpecExpiry == InitCache /\ [][NextExpiry]_vars

\* Batches that are aborted, by cancel() or by the next validateUrls call, while their
\* probes stand anywhere: at the HEAD, in a redirect chain, between the 403 of the HEAD
\* and the GET, at the GET, or before their window was dispatched. No server has to
\* answer; the continuations of settled promises are microtasks, which the event loop
\* always runs.
\* The first call validates two urls, in one window or in two (maxConcurrent 2 or 1); a
\* later call, which supersedes it, validates one.
AbortLists == [b \in Batches |-> IF b = 1 THEN <<UrlA, UrlB>> ELSE <<UrlB>>]

AbortResponses ==
    {PlainResponse(200), PlainResponse(403), Response(301, NoHeader, LocationOk, Body_Empty)}

\* What the server of a url answers: the server of the first url may redirect, the
\* server of the second answers for itself.
ResponsesOf(responses, u) ==
    IF u = UrlA THEN responses ELSE {r \in responses : ~IsRedirect(r)}

NextAbort ==
    \/ \E b \in Batches : ValidateUrls(b, AbortLists[b])
    \/ Cancel
    \/ \E b \in Batches : WindowDone(b)
    \/ \E b \in Batches, u \in Urls :
          \E r \in ResponsesOf(AbortResponses, u) : ResponseArrives(b, u, r)
    \/ \E b \in Batches, u \in Urls : EndEvent(b, u)
    \/ \E b \in Batches, u \in Urls : ConnectionCloses(b, u)
    \/ \E b \in Batches, u \in Urls : TimeoutEvent(b, u)
    \/ \E b \in Batches, u \in Urls : EarlierHopTimeout(b, u)
    \/ \E b \in Batches, u \in Urls : EarlierHopError(b, u, MsgReset)
    \/ \E b \in Batches, u \in Urls : Continue(b, u)

Microtasks ==
    /\ \A b \in Batches : WF_vars(WindowDone(b))
    /\ \A b \in Batches, u \in Urls : WF_vars(Continue(b, u))

SpecAbort == InitBatches /\ [][NextAbort]_vars /\ Microtasks

\* The same callers, and servers that may also redirect back to the first url, under the
\* assumption that every request that was issued ends: in a response, in an error or
\* in its timeout. A response may still lose its connection before the end of its body.
AnsweredResponses ==
    AbortResponses \cup {Response(301, NoHeader, LocationBack, Body_Empty)}

RequestEnds(b, u) ==
    \/ \E r \in ResponsesOf(AnsweredResponses, u) : ResponseArrives(b, u, r)
    \/ EndEvent(b, u)
    \/ ErrorEvent(b, u, MsgHangUp)
    \/ TimeoutEvent(b, u)

NextAnswered ==
    \/ \E b \in Batches : ValidateUrls(b, AbortLists[b])
    \/ Cancel
    \/ \E b \in Batches : WindowDone(b)
    \/ \E b \in Batches, u \in Urls : RequestEnds(b, u)
    \/ \E b \in Batches, u \in Urls : ConnectionCloses(b, u)
    \/ \E b \in Batches, u \in Urls : EarlierHopTimeout(b, u)
    \/ \E b \in Batches, u \in Urls : Continue(b, u)

SpecAnswered ==
    /\ InitBatches /\ [][NextAnswered]_vars /\ Microtasks
    /\ \A b \in Batches, u \in Urls : WF_vars(RequestEnds(b, u))

\* The activated extension: documents are opened, edited and closed, their debounce
\* timers fire, and every server answers: 404 for the asset of a.html, 200 for the other.
ServerResponse(url) == IF url = UrlA THEN PlainResponse(404) ELSE PlainResponse(200)

\* activate(): new UrlCache(5), new LinkValidator(cache, 5000, 5), and a debounced
\* processDocument for every document that is open.
InitExtension ==
    /\ InitValidator /\ now = 0 /\ cache = EmptyMap /\ ret = NoCall
    /\ ttlMs = DefaultTtlMinutes * MsPerMinute
    /\ openDocuments \in SUBSET Documents
    /\ debounceTimers = openDocuments
    /\ diagnosticCollection = EmptyMap
    /\ processing = [b \in Batches |-> NotProcessing]
    /\ disposed = FALSE

NextExtension ==
    \/ \E d \in Documents : OpenDocument(d)
    \/ \E d \in Documents : ChangeDocument(d)
    \/ \E d \in Documents : CloseDocument(d)
    \/ \E d \in Documents : TimerFires(d)
    \/ Deactivate
    \/ \E b \in Batches : ProcessDocumentResumes(b)
    \/ \E b \in Batches : WindowDone(b)
    \/ \E b \in Batches, u \in Urls : ResponseArrives(b, u, ServerResponse(u))
    \/ \E b \in Batches, u \in Urls : Continue(b, u)

SpecExtension == InitExtension /\ [][NextExtension]_vars

\* isCdnErrorResponse applied to responses of every kind: the state starts with an input
\* and the one step applies the function to it.
\* Content types that contain "xml" or "text/html", and content types that do not (a
\* missing header, other types, and the same words in upper case).
MatchingContentTypes == {CT_application_xml, CT_text_xml, CT_svg_xml, CT_text_html}

OtherContentTypes ==
    {NoHeader, CT_octet_stream, CT_text_plain, CT_TEXT_HTML, CT_application_XML, CT_text_htm}

\* An input carries, besides the response, how it was built.
CdnInput(contentType, body, typeMatches, hasMarker) ==
    [op |-> "input", fn |-> "isCdnErrorResponse",
     response |-> Response(403, contentType, NoLocation, body),
     typeMatches |-> typeMatches, hasMarker |-> hasMarker]

CdnInputs ==
    {CdnInput(ct, body, TRUE, TRUE) : ct \in MatchingContentTypes, body \in BodiesWithMarker}
    \cup {CdnInput(ct, body, TRUE, FALSE) :
             ct \in MatchingContentTypes, body \in BodiesWithoutMarker}
    \cup {CdnInput(ct, body, FALSE, TRUE) : ct \in OtherContentTypes, body \in BodiesWithMarker}
    \cup {CdnInput(ct, body, FALSE, FALSE) :
             ct \in OtherContentTypes, body \in BodiesWithoutMarker}

ApplyIsCdnErrorResponse ==
    /\ ret.op = "input" /\ ret.fn = "isCdnErrorResponse"
    /\ ret' = [op |-> "isCdnErrorResponse", response |-> ret.response,
               typeMatches |-> ret.typeMatches, hasMarker |-> ret.hasMarker,
               value |-> isCdnErrorResponse(ret.response)]
    /\ UNCHANGED <<now, ttlMs, cache>>
    /\ UNCHANGED validatorVars
    /\ UNCHANGED extensionVars

\* handleError applied to failures of every kind, as each transport raises them; an input
\* carries the transport and the kind of the failure.
HandleErrorInput(transport, url, error, kind) ==
    [op |-> "input", fn |-> "handleError", transport |-> transport, url |-> url,
     error |-> error, kind |-> kind]

\* What validateUrl of the http transport catches: the rejections of makeRequest, the
\* errors of the socket, and whatever else is thrown.
Failures ==
    {<<Err(MsgCancelled), "cancelled">>,
     <<Err(MsgTimeout), "timeout">>,
     <<Err(MsgNotFound), "dns">>,
     <<Err(MsgRefused), "refused">>,
     <<Err(MsgHangUp), "other">>,
     <<Err(MsgReset), "other">>,
     <<Err(MsgInvalidUrl), "other">>,
     <<Err(""), "empty message">>,
     <<Thrown("boom"), "not a transport error">>}

\* What validateUrl of the axios transport catches: the AxiosErrors of axios.head and
\* axios.get, and whatever else is thrown, an Error that is not an AxiosError included.
AxiosFailures ==
    {<<AxiosErr("ERR_CANCELED", MsgCanceled, TRUE), "cancelled">>,
     <<AxiosErr("ERR_CANCELED", MsgCanceled, FALSE), "cancelled">>,
     <<AxiosErr("ECONNABORTED", MsgAxiosTimeout, FALSE), "timeout">>,
     <<AxiosErr("ENOTFOUND", MsgNotFound, FALSE), "dns">>,
     <<AxiosErr("ECONNREFUSED", MsgRefused, FALSE), "refused">>,
     <<AxiosErr("ECONNRESET", MsgReset, FALSE), "other">>,
     <<AxiosErr("ECONNRESET", MsgHangUp, FALSE), "other">>,
     <<AxiosErr("ERR_NETWORK", "", FALSE), "empty message">>,
     <<Err(MsgInvalidUrl), "not a transport error">>,
     <<Err(""), "not a transport error">>,
     <<Thrown("boom"), "not a transport error">>}

HandleErrorInputs ==
    {HandleErrorInput("http", u, f[1], f[2]) : u \in Urls, f \in Failures}
    \cup {HandleErrorInput("axios", u, f[1], f[2]) : u \in Urls, f \in AxiosFailures}

\* handleError(url, error): the outcome, stored unless the failure is the cancellation.
ApplyHandleError ==
    /\ ret.op = "input" /\ ret.fn = "handleError" /\ ret.transport = "http"
    /\ ret' = [op |-> "handleError", transport |-> "http", url |-> ret.url,
               error |-> ret.error, kind |-> ret.kind,
               value |-> handleErrorResult(ret.url, ret.error)]
    /\ cache' = IF handleErrorWrites(ret.error)
                THEN UrlCache_setMap(cache, ret.url,
                                     WithoutUrl(handleErrorResult(ret.url, ret.error)), now)
                ELSE cache
    /\ UNCHANGED <<now, ttlMs>>
    /\ UNCHANGED validatorVars
    /\ UNCHANGED extensionVars

\* handleError(url, error) of the axios transport: the outcome, stored unless the failure
\* is the cancellation.
ApplyAxiosHandleError ==
    /\ ret.op = "input" /\ ret.fn = "handleError" /\ ret.transport = "axios"
    /\ ret' = [op |-> "handleError", transport |-> "axios", url |-> ret.url,
               error |-> ret.error, kind |-> ret.kind,
               value |-> axiosHandleErrorResult(ret.url, ret.error)]
    /\ cache' = IF ~axiosHandleErrorIsCancel(ret.error)
                THEN UrlCache_setMap(cache, ret.url,
                                     WithoutUrl(axiosHandleErrorResult(ret.url, ret.error)),
                                     now)
                ELSE cache
    /\ UNCHANGED <<now, ttlMs>>
    /\ UNCHANGED validatorVars
    /\ UNCHANGED extensionVars

\* updateDiagnostics applied to what processDocument hands it: a document, the occurrences
\* the scanner found, in text order, and a result list as validateUrls returns it, one result per url
\* at most, for some of the urls or all of them. A result carries the kind of its outcome.
OutcomesOf(u) ==
    {<<AfterHead(u, PlainResponse(200)), "valid">>,
     <<AfterHead(u, PlainResponse(404)), "broken">>,
     <<AfterGet(u, PlainResponse(403)), "protected">>,
     <<AfterGet(u, Response(403, CT_application_xml, NoLocation, Body_NoSuchKey)), "cdn error">>,
     <<handleErrorResult(u, Err(MsgCancelled)), "cancelled">>,
     <<handleErrorResult(u, Err(MsgTimeout)), "timeout">>}

\* Lists of tagged results without a repeated url.
ResultLists ==
    {<<>>}
    \cup {<<r>> : r \in UNION {OutcomesOf(u) : u \in LongUrls}}
    \cup {<<r>> : r \in OutcomesOf(UrlA) \cup OutcomesOf(UrlB)}
    \cup {<<r, q>> : r \in OutcomesOf(UrlA), q \in OutcomesOf(UrlB)}
    \cup {<<q, r>> : r \in OutcomesOf(UrlA), q \in OutcomesOf(UrlB)}

DetectedLists ==
    {[k \in 1..Len(urls) |-> DetectedUrl(urls[k], k)] : urls \in SeqsUpTo(Urls, MaxLen)}
    \cup {<<DetectedUrl(u, 1)>> : u \in LongUrls}

UpdateDiagnosticsInputs ==
    {[op |-> "input", fn |-> "updateDiagnostics", document |-> DocA, detectedUrls |-> d,
      validationResults |-> [k \in 1..Len(rs) |-> rs[k][1]],
      kinds |-> [k \in 1..Len(rs) |-> rs[k][2]]] : d \in DetectedLists, rs \in ResultLists}

ApplyUpdateDiagnostics ==
    /\ ret.op = "input" /\ ret.fn = "updateDiagnostics"
    /\ ret' = [op |-> "updateDiagnostics", document |-> ret.document,
               detectedUrls |-> ret.detectedUrls,
               validationResults |-> ret.validationResults, kinds |-> ret.kinds,
               value |-> updateDiagnostics(ret.detectedUrls, ret.validationResults)]
    /\ diagnosticCollection' =
          setDiagnostics(diagnosticCollection, ret.document,
                         updateDiagnostics(ret.detectedUrls, ret.validationResults))
    /\ UNCHANGED <<now, ttlMs, cache, openDocuments, debounceTimers, processing, disposed>>
    /\ UNCHANGED validatorVars

\* clearAll(), by a direct caller of the DiagnosticsManager: diagnosticCollection.clear().
\* (The extension never calls it and keeps its manager to itself.)
ClearAll ==
    /\ diagnosticCollection' = EmptyMap
    /\ UNCHANGED <<now, ttlMs, cache, ret, openDocuments, debounceTimers, processing,
                   disposed>>
    /\ UNCHANGED validatorVars

\* The body of a GET response as it arrives: chunks of bytes. A chunk is a list of runs of
\* one byte value: "a" an ASCII letter, "C3" and "A9" the two bytes of the UTF-8 form of
\* "e" with an acute accent. Text is a list of runs of one character.
MaxChunks == 3

ByteRun(byte, count) == [byte |-> byte, count |-> count]
CharRun(char, count) == [char |-> char, count |-> count]

\* const maxBytes = 10240
maxBytes == 10240

RECURSIVE chunkLength(_)
\* chunk.length
chunkLength(chunk) ==
    IF chunk = <<>> THEN 0 ELSE Head(chunk).count + chunkLength(Tail(chunk))

RECURSIVE Normalized(_)
\* Adjacent runs of one character are one run.
Normalized(text) ==
    IF Len(text) <= 1 THEN text
    ELSE LET rest == Normalized(Tail(text))
         IN  IF Head(text).char = Head(rest).char
             THEN <<CharRun(Head(text).char, Head(text).count + Head(rest).count)>>
                  \o Tail(rest)
             ELSE <<Head(text)>> \o rest

\* s + t on strings
Concat(s, t) == Normalized(s \o t)

\* Buffer.toString(), the UTF-8 decoder applied to these bytes alone: an ASCII byte is
\* its character, C3 A9 is the accented letter, and a C3 without its A9 or an A9 without
\* its C3 is U+FFFD, the replacement character.
toString(bytes) ==
    LET Decoded(i) ==
            IF bytes[i].byte = "a" THEN CharRun("a", bytes[i].count)
            ELSE IF bytes[i].byte = "C3"
            THEN (IF i < Len(bytes) /\ bytes[i + 1].byte = "A9"
                  THEN CharRun("e acute", 1) ELSE CharRun("U+FFFD", 1))
            ELSE (IF i > 1 /\ bytes[i - 1].byte = "C3"
                  THEN CharRun("", 0) ELSE CharRun("U+FFFD", 1))
        all == [i \in 1..Len(bytes) |-> Decoded(i)]
    IN  Normalized(SelectSeq(all, LAMBDA r : r.count > 0))

\* res.on('data'): bytesReceived += chunk.length; the chunk is appended, whole, while the
\* count is within maxBytes.
onData(state, chunk) ==
    LET received == state.bytesReceived + chunkLength(chunk)
    IN  [bytesReceived |-> received,
         body |-> IF received <= maxBytes
                  THEN Concat(state.body, toString(chunk)) ELSE state.body]

RECURSIVE Flattened(_)
\* The received data: the bytes of the chunks, one after the other.
Flattened(chunks) == IF chunks = <<>> THEN <<>> ELSE Head(chunks) \o Flattened(Tail(chunks))

\* Data that is UTF-8 text: every C3 is followed by its A9 and every A9 follows a C3.
IsUtf8(bytes) ==
    \A i \in 1..Len(bytes) :
        /\ bytes[i].byte = "C3" => i < Len(bytes) /\ bytes[i + 1].byte = "A9"
        /\ bytes[i].byte = "A9" => i > 1 /\ bytes[i - 1].byte = "C3"

\* Chunks of 1 byte, of about the cap, with an accented letter whole, and with chunk ends
\* that fall between the two bytes of an accented letter.
Chunks ==
    {<<ByteRun("a", n)>> : n \in {1, maxBytes - 1, maxBytes, maxBytes + 1}}
    \cup {<<ByteRun("C3", 1), ByteRun("A9", 1)>>,
          <<ByteRun("a", 1), ByteRun("C3", 1)>>,
          <<ByteRun("A9", 1), ByteRun("a", 1)>>,
          <<ByteRun("C3", 1)>>, <<ByteRun("A9", 1)>>}

\* The bodies a server can send as text: every split of them into up to MaxChunks chunks.
ReadBodyInputs ==
    {[op |-> "input", fn |-> "readBody", statusCode |-> 403, chunks |-> chunks] :
        chunks \in {c \in SeqsUpTo(Chunks, MaxChunks) : IsUtf8(Flattened(c))}}

\* The response callback of a GET probe, from `let body = ''` on: bytesReceived = 0, the
\* 'data' and 'end' handlers are registered, and the callback returns. chunks is what the
\* server is going to send, left what has not arrived.
ReadBodyResponse ==
    /\ ret.op = "input" /\ ret.fn = "readBody"
    /\ ret' = [op |-> "reading", statusCode |-> ret.statusCode, chunks |-> ret.chunks,
               left |-> ret.chunks, bytesReceived |-> 0, body |-> <<>>]
    /\ UNCHANGED <<now, ttlMs, cache>>
    /\ UNCHANGED validatorVars
    /\ UNCHANGED extensionVars

\* A 'data' event: the next chunk arrives, in a turn of its own.
ReadBodyData ==
    /\ ret.op = "reading"
    /\ ret.left # <<>>
    /\ LET state == onData([bytesReceived |-> ret.bytesReceived, body |-> ret.body],
                           Head(ret.left))
       IN  ret' = [ret EXCEPT !.left = Tail(@), !.bytesReceived = state.bytesReceived,
                              !.body = state.body]
    /\ UNCHANGED <<now, ttlMs, cache>>
    /\ UNCHANGED validatorVars
    /\ UNCHANGED extensionVars

\* The 'end' event, after the last chunk: resolve with the status and the body collected.
ReadBodyEnd ==
    /\ ret.op = "reading"
    /\ ret.left = <<>>
    /\ ret' = [op |-> "readBody", statusCode |-> ret.statusCode, chunks |-> ret.chunks,
               value |-> [statusCode |-> ret.statusCode,
                          statusText |-> StatusMessage(ret.statusCode),
                          body |-> ret.body]]
    /\ UNCHANGED <<now, ttlMs, cache>>
    /\ UNCHANGED validatorVars
    /\ UNCHANGED extensionVars

\* Before 'end', the abort handler, the 'timeout' handler or the 'error' handler of the
\* request runs: the promise is rejected and the body collected so far is dropped. After
\* the connection was closed the abort handler is the one that can still run.
ReadBodyFailures == {MsgCancelled, MsgTimeout, MsgReset}

ReadBodyFails(message) ==
    /\ \/ ret.op = "reading"
       \/ ret.op = "readBody pending" /\ message = MsgCancelled
    /\ ret' = [op |-> "readBody rejected", statusCode |-> ret.statusCode,
               chunks |-> ret.chunks, left |-> ret.left, error |-> Err(message)]
    /\ UNCHANGED <<now, ttlMs, cache>>
    /\ UNCHANGED validatorVars
    /\ UNCHANGED extensionVars

\* Before 'end', the server closes the connection: no event of the request follows and
\* the promise stays pending.
ReadBodyCloses ==
    /\ ret.op = "reading"
    /\ ret.left # <<>>
    /\ ret' = [op |-> "readBody pending", statusCode |-> ret.statusCode,
               chunks |-> ret.chunks, left |-> ret.left]
    /\ UNCHANGED <<now, ttlMs, cache>>
    /\ UNCHANGED validatorVars
    /\ UNCHANGED extensionVars

InitUnits ==
    /\ InitValidator /\ now = 0 /\ cache = EmptyMap
    /\ ttlMs = DefaultTtlMinutes * MsPerMinute
    /\ ret \in CdnInputs \cup HandleErrorInputs \cup UpdateDiagnosticsInputs
               \cup ReadBodyInputs
    /\ InitNoEditor

NextUnits ==
    \/ ApplyIsCdnErrorResponse
    \/ ApplyHandleError
    \/ ApplyAxiosHandleError
    \/ ApplyUpdateDiagnostics
    \/ ClearAll
    \/ ReadBodyResponse
    \/ ReadBodyData
    \/ ReadBodyEnd
    \/ \E m \in ReadBodyFailures : ReadBodyFails(m)
    \/ ReadBodyCloses

SpecUnits == InitUnits /\ [][NextUnits]_vars

(***************************************************************************)
(* Properties                                                              *)
(***************************************************************************)
Invocations == {<<b, u>> : b \in Batches, u \in AllUrls}

CancelledResult(u) == [url |-> u, isValid |-> TRUE, error |-> "Request cancelled"]

\* C1 (SpecCache): get(url) returns the stored entry if and only if an entry for url is
\* present and now - timestamp <= ttl; an entry older than ttl is not returned and is
\* evicted by that get.
C1_GetReturnsFreshEntriesOnly ==
    ret.op = "get" =>
        LET present == ret.url \in DOMAIN ret.pre
            fresh == present /\ ret.at - ret.pre[ret.url].timestamp <= ttlMs
        IN  /\ (ret.value # Undefined) <=> fresh
            /\ fresh => ret.value = ret.pre[ret.url]
            /\ (present /\ ~fresh) => ret.url \notin DOMAIN cache

\* A get that met an entry one millisecond older than a positive ttl.
C1_Witness ==
    /\ ret.op = "get"
    /\ ttlMs > 0
    /\ ret.url \in DOMAIN ret.pre
    /\ ret.at - ret.pre[ret.url].timestamp = ttlMs + 1
    /\ ret.value = Undefined
    /\ ret.url \notin DOMAIN cache

\* C2 (SpecProbe): with no cache entry and no transport failure the outcome is the
\* function of the HEAD status S and the GET status G that the classification table
\* gives, and a GET is issued only after a HEAD of 403 or 405.
C2_OutcomeIsFunctionOfStatuses ==
    \A i \in Invocations :
        LET v == val[i[1]][i[2]]
            u == i[2]
        IN  /\ v.pc = "GET" => v.head.statusCode \in {403, 405}
            /\ (v.pc = "done" /\ v.cause = "response") =>
                 LET S == v.head.statusCode
                 IN  IF S >= 200 /\ S < 400
                     THEN v.get = Undefined
                          /\ v.result = StatusResult(u, TRUE, S, v.head.statusText)
                     ELSE IF S \in {404, 410}
                     THEN v.get = Undefined
                          /\ v.result = StatusResult(u, FALSE, S, v.head.statusText)
                     ELSE IF S \in {403, 405}
                     THEN /\ v.get # Undefined
                          /\ LET G == v.get.statusCode
                             IN  IF G >= 200 /\ G < 400
                                 THEN v.result = StatusResult(u, TRUE, G, v.get.statusText)
                                 ELSE IF G = 403 /\ isCdnErrorResponse(v.get)
                                 THEN v.result = StatusResult(u, FALSE, 403, "Not Found (CDN)")
                                 ELSE IF G = 403
                                 THEN v.result = StatusResult(u, TRUE, 403, "Protected")
                                 ELSE v.result = StatusResult(u, FALSE, G, v.get.statusText)
                     ELSE v.get = Undefined
                          /\ v.result = StatusResult(u, FALSE, S, v.head.statusText)

\* HEAD 403, then GET 403 with an XML NoSuchKey page: broken, "Not Found (CDN)".
C2_Witness ==
    \E i \in Invocations :
        LET v == val[i[1]][i[2]]
        IN  /\ v.pc = "done" /\ v.cause = "response"
            /\ v.head.statusCode = 403
            /\ v.get = Response(403, CT_application_xml, NoLocation, Body_NoSuchKey)
            /\ v.result = StatusResult(i[2], FALSE, 403, "Not Found (CDN)")

\* C3 (SpecProbe): an outcome whose probe was ended by the cancellation of its batch
\* (signal found aborted at the start of a probe, or aborted while a request was in
\* flight) is isValid = true with error "Request cancelled".
C3_CancelledIsNeverBroken ==
    \A i \in Invocations :
        LET v == val[i[1]][i[2]]
        IN  (v.pc = "done" /\ v.cause = "abort") => v.result = CancelledResult(i[2])

\* A GET escalation, cancelled in flight after a redirect was followed.
C3_Witness ==
    \E i \in Invocations :
        LET v == val[i[1]][i[2]]
        IN  /\ v.pc = "done" /\ v.cause = "abort"
            /\ v.head # Undefined /\ v.head.statusCode = 403
            /\ v.reqs = 2
            /\ v.result.isValid

\* C4 (SpecProbe): a probe follows at most 5 redirects: it never issues a 7th request.
C4_AtMostFiveRedirects ==
    \A i \in Invocations : val[i[1]][i[2]].reqs <= MaxRedirects + 1

\* C5 as claimed (Spec): once validateUrls has been called, every earlier batch that is
\* still running has an aborted signal.
C5_AnyCallAbortsEarlierBatch ==
    \A a \in Batches, b \in Batches :
        (a < b /\ batch[b].st # "new" /\ batch[a].st = "running") => a \in aborted

\* C5 as amended (Spec): a validateUrls call with a non-empty list aborts the signal of
\* every earlier batch still running, and at most one running batch has a signal that
\* is not aborted.
C5_NonEmptyCallAbortsEarlierBatch ==
    /\ \A a \in Batches, b \in Batches :
          (a < b /\ batch[b].st # "new" /\ batch[b].urls # <<>> /\ batch[a].st = "running")
              => a \in aborted
    /\ Cardinality({b \in Batches : batch[b].st = "running" /\ b \notin aborted}) <= 1

\* Two batches running, the earlier one aborted by the later one's call.
C5_Witness ==
    /\ batch[1].st = "running" /\ 1 \in aborted
    /\ batch[2].st = "running" /\ 2 \notin aborted
    /\ abortController = 2

\* The urls of the results are the first urls of the deduplicated input, and each
\* result is the one its invocation returned.
IsPrefixOfOutcomes(bt, vb) ==
    LET unique == uniqueUrlsOf(bt.urls)
    IN  /\ Len(bt.results) <= Len(unique)
        /\ \A k \in 1..Len(bt.results) :
              /\ bt.results[k].url = unique[k]
              /\ vb[unique[k]].pc = "done"
              /\ bt.results[k] = vb[unique[k]].result

\* C6 (Spec): once a batch's signal is aborted no further url of it is dispatched, and
\* the call ends with a prefix of the deduplicated urls' outcomes, all of them from
\* windows that were dispatched.
C6_AbortStopsDispatch ==
    [][\A b \in Batches :
          /\ b \in aborted =>
                \A u \in AllUrls : val[b][u].pc = "idle" => val'[b][u].pc = "idle"
          /\ (batch'[b].st = "done" /\ b \in aborted') =>
                IsPrefixOfOutcomes(batch'[b], val'[b])]_vars

\* A batch that ended with some, not all, of its outcomes.
C6_Witness ==
    \E b \in Batches :
        /\ batch[b].st = "done" /\ b \in aborted
        /\ Len(batch[b].results) > 0
        /\ Len(batch[b].results) < Len(batch[b].uniqueUrls)

\* C7 (Spec): a batch invokes the validator at most once per distinct url, and its
\* result list holds each url at most once.
C7_OneInvocationPerUrl ==
    \A b \in Batches :
        /\ \A u \in AllUrls : val[b][u].calls <= 1
        /\ \A j \in 1..Len(batch[b].results), k \in 1..Len(batch[b].results) :
              batch[b].results[j].url = batch[b].results[k].url => j = k

\* A batch whose input repeats one url, finished with a single result.
C7_Witness ==
    \E b \in Batches :
        /\ batch[b].st = "done"
        /\ Len(batch[b].urls) > 1
        /\ \A k \in 1..Len(batch[b].urls) : batch[b].urls[k] = batch[b].urls[1]
        /\ Len(batch[b].results) = 1
        /\ val[b][batch[b].urls[1]].calls = 1

FirstIndex(s, x) == CHOOSE k \in 1..Len(s) : s[k] = x /\ \A j \in 1..(k - 1) : s[j] # x

\* C8 (Spec): a batch that was not cancelled returns exactly one outcome per distinct
\* url of its input, each the outcome computed for that url, in the order of the urls'
\* first occurrences in the input.
C8_CompleteAndOrdered ==
    \A b \in Batches :
        (batch[b].st = "done" /\ b \notin aborted) =>
            LET res == batch[b].results
                in == batch[b].urls
            IN  /\ {res[k].url : k \in 1..Len(res)} = {in[k] : k \in 1..Len(in)}
                /\ \A j \in 1..Len(res), k \in 1..Len(res) :
                      j < k => FirstIndex(in, res[j].url) < FirstIndex(in, res[k].url)
                /\ \A k \in 1..Len(res) : res[k] = val[b][res[k].url].result

\* A finished, uncancelled batch over two windows whose input repeats a url.
C8_Witness ==
    \E b \in Batches :
        /\ batch[b].st = "done" /\ b \notin aborted
        /\ maxConcurrent = 1
        /\ Len(batch[b].urls) > Len(batch[b].results)
        /\ Len(batch[b].results) = 2

\* C9 (SpecProbe): every failure raised while probing becomes an outcome of its url;
\* none escapes the handlers of the invocation.
C9_EveryFailureBecomesAnOutcome == uncaught = {}

\* C10 (Spec): an invocation that ended with the "Request cancelled" outcome did not
\* write the cache, and the cache holds no such outcome.
C10_CancelledWritesNothing ==
    /\ \A i \in Invocations :
          LET v == val[i[1]][i[2]]
          IN  (v.pc = "done" /\ v.result = CancelledResult(i[2])) => ~v.wrote
    /\ \A u \in DOMAIN cache :
          "error" \in DOMAIN cache[u] => cache[u].error # "Request cancelled"

\* A cancelled invocation next to one that did write the cache.
C10_Witness ==
    \E i \in Invocations, j \in Invocations :
        /\ val[i[1]][i[2]].pc = "done"
        /\ val[i[1]][i[2]].result = CancelledResult(i[2])
        /\ i[2] \notin DOMAIN cache
        /\ val[j[1]][j[2]].wrote
        /\ j[2] \in DOMAIN cache

\* C11 (SpecProbe): when an invocation returns, after probing, an outcome that is not the
\* cancellation outcome, the cache at that moment holds under the url an entry with the
\* outcome's isValid, statusCode, statusText and error, stamped with the current time.
C11_OutcomeWrittenBeforeReturn ==
    [][\A i \in Invocations :
          LET v == val[i[1]][i[2]]
              w == val'[i[1]][i[2]]
          IN  (v.pc \in {"HEAD", "GET"} /\ w.pc = "done" /\ w.result # CancelledResult(i[2]))
                  => /\ w.wrote
                     /\ i[2] \in DOMAIN cache'
                     /\ cache'[i[2]] = WithTimestamp(WithoutUrl(w.result), now)]_vars

\* A probe that failed on a DNS error returned "Domain not found", and the cache holds it.
C11_Witness ==
    \E i \in Invocations :
        LET v == val[i[1]][i[2]]
        IN  /\ v.pc = "done" /\ v.cause = "error"
            /\ v.result = ErrorResult(i[2], FALSE, "Domain not found")
            /\ i[2] \in DOMAIN cache
            /\ cache[i[2]] = WithTimestamp([isValid |-> FALSE, error |-> "Domain not found"], now)

\* C12 (SpecExpiry): when validateUrl is invoked while the cache holds an unexpired entry
\* for the url, it issues no request, writes nothing, leaves every cache entry as it was
\* (the timestamp of the entry included) and returns the stored isValid, statusCode,
\* statusText and error under the url; the aborted state of the signal plays no part.
C12_CacheHitIssuesNoProbe ==
    /\ [](\A u \in DOMAIN cache, signalAborted \in BOOLEAN :
            now - cache[u].timestamp <= ttlMs =>
                LET w == validateUrlStart(cache, u, now, ttlMs, signalAborted)
                IN  /\ w.pc = "done" /\ w.reqs = 0 /\ w.wire = "closed"
                    /\ w.result = CachedResult(u, cache[u])
                    /\ UrlCache_getMap(cache, u, now, ttlMs) = cache)
    /\ [][\A i \in Invocations :
            LET v == val[i[1]][i[2]]
                w == val'[i[1]][i[2]]
                u == i[2]
            IN  (/\ v.pc = "idle" /\ w.pc # "idle"
                 /\ u \in DOMAIN cache
                 /\ now - cache[u].timestamp <= ttlMs)
                    => /\ w.pc = "done" /\ w.reqs = 0 /\ w.wire = "closed" /\ ~w.wrote
                       /\ w.result = CachedResult(u, cache[u])
                       /\ u \in DOMAIN cache' /\ cache'[u] = cache[u]
                       /\ \A x \in DOMAIN cache' : x \in DOMAIN cache /\ cache'[x] = cache[x]]_vars

\* An invocation answered from an entry stored earlier, at the age of exactly ttl.
C12_Witness ==
    \E i \in Invocations :
        LET v == val[i[1]][i[2]]
        IN  /\ v.pc = "done" /\ v.cause = "cache" /\ v.reqs = 0
            /\ ttlMs > 0
            /\ i[2] \in DOMAIN cache
            /\ now - cache[i[2]].timestamp = ttlMs
            /\ v.result = CachedResult(i[2], cache[i[2]])

\* C13 (SpecExpiry): validateUrls([]) resolves to the empty list and changes nothing else: no
\* invocation starts and no request is issued, the cache, the controller, the signals and
\* every other batch, in flight or not, are as before.
C13_EmptyInputTouchesNothing ==
    [][\A b \in Batches :
          (batch[b].st = "new" /\ batch'[b].st # "new" /\ batch'[b].urls = <<>>)
              => /\ batch'[b].st = "done" /\ batch'[b].results = <<>>
                 /\ \A a \in Batches \ {b} : batch'[a] = batch[a]
                 /\ val' = val /\ cache' = cache
                 /\ abortController' = abortController /\ aborted' = aborted]_vars

\* validateUrls([]) returned while the batch before it has a request in flight and its
\* controller is still the validator's.
C13_Witness ==
    \E a \in Batches, b \in Batches :
        /\ a < b
        /\ batch[b].st = "done" /\ batch[b].urls = <<>> /\ batch[b].results = <<>>
        /\ batch[a].st = "running" /\ a \notin aborted /\ abortController = a
        /\ \E u \in Urls : val[a][u].wire = "open"

\* The probes of a batch that are in flight: the requests that await their response or
\* the rest of its body.
InFlight(b) == {u \in AllUrls : val[b][u].wire \in {"open", "body"}}

Position(s, x) == CHOOSE k \in 1..Len(s) : s[k] = x

\* C14 (SpecAbort): a batch processes its deduplicated urls in consecutive windows of at
\* most maxConcurrent urls: a validator starts only when every url before its window has
\* returned its outcome and the outcome is in the results, so that at every moment at most
\* maxConcurrent probes of the batch are in flight.
C14_WindowsRunOneAfterAnother ==
    /\ [](\A b \in Batches : Cardinality(InFlight(b)) <= maxConcurrent)
    /\ [][\A b \in Batches, u \in AllUrls :
            (val[b][u].pc = "idle" /\ val'[b][u].pc # "idle") =>
                LET unique == batch'[b].uniqueUrls
                    first == batch'[b].i
                IN  /\ first % maxConcurrent = 0
                    /\ Position(unique, u) > first
                    /\ Position(unique, u) <= first + maxConcurrent
                    /\ Len(batch'[b].results) = first
                    /\ \A k \in 1..first :
                          /\ val[b][unique[k]].pc = "done"
                          /\ batch'[b].results[k] = val[b][unique[k]].result]_vars

HasError(result, message) == "error" \in DOMAIN result /\ result.error = message

\* C15 (Spec): the list a validateUrls call returns holds only outcomes that the call's
\* own validators returned, one per distinct url of its own input and in that order; an
\* outcome of a validator of an earlier, superseded batch (a "Request cancelled" outcome)
\* is never in the list of the batch that superseded it: a cancelled outcome in a list was
\* returned by a validator of that very batch whose own signal was aborted.
C15_OnlyOwnOutcomes ==
    \A b \in Batches :
        batch[b].st = "done" =>
            /\ IsPrefixOfOutcomes(batch[b], val[b])
            /\ b \notin aborted =>
                  /\ Len(batch[b].results) = Len(uniqueUrlsOf(batch[b].urls))
                  /\ \A k \in 1..Len(batch[b].results) :
                        ~HasError(batch[b].results[k], "Request cancelled")
            /\ \A k \in 1..Len(batch[b].results) :
                  HasError(batch[b].results[k], "Request cancelled") =>
                      /\ b \in aborted
                      /\ val[b][batch[b].results[k].url].cause = "abort"

\* Batch A was superseded in flight and ended with a cancelled outcome for a url; batch B
\* ran to its end over two windows and its list holds a probed outcome for that url.
C15_Witness ==
    \E a \in Batches, b \in Batches, u \in Urls :
        /\ a < b
        /\ batch[a].st = "done" /\ a \in aborted
        /\ val[a][u].result = CancelledResult(u)
        /\ batch[b].st = "done" /\ b \notin aborted
        /\ maxConcurrent = 1 /\ Len(batch[b].results) = 2
        /\ batch[b].results[2].url = u
        /\ val[b][u].cause = "response"
        /\ batch[b].results[2] = val[b][u].result

\* C16 (SpecUnits): isCdnErrorResponse returns true exactly for the responses whose content
\* type contains "xml" or "text/html" and whose body, lower-cased, contains one of the six
\* markers; an empty body, a body without marker and a missing or other content type
\* give false.
C16_CdnErrorIffTypeAndMarker ==
    ret.op = "isCdnErrorResponse" => (ret.value <=> (ret.typeMatches /\ ret.hasMarker))

\* An image/svg+xml response whose body holds <ERROR> between other text: true.
C16_Witness ==
    /\ ret.op = "isCdnErrorResponse"
    /\ ret.response.contentType = CT_svg_xml
    /\ ret.response.body = Pad_Code \o toUpperCase(M_error_tag) \o Pad_Message
    /\ ret.value = TRUE

\* C17 as claimed (SpecUnits): in either transport a failure that is not the cancellation
\* gives isValid = false with "Request timeout" for a timeout, "Domain not found" for a DNS
\* failure, "Connection refused" for a refused connection, its own message for any other
\* failure, and "Unknown error" when the failure has no message.
C17_NoMessageGivesUnknownError ==
    (ret.op = "handleError" /\ ret.kind # "cancelled") =>
        ret.value = ErrorResult(ret.url, FALSE,
                        CASE ret.kind = "timeout" -> "Request timeout"
                          [] ret.kind = "dns" -> "Domain not found"
                          [] ret.kind = "refused" -> "Connection refused"
                          [] ret.kind = "other" -> ret.error.message
                          [] OTHER -> "Unknown error")

\* C17 as amended (SpecUnits): as claimed for the timeout, the DNS failure, the refused
\* connection and any other transport failure with a message; a transport failure whose
\* message is empty gives "Network error", and "Unknown error" is the outcome of a thrown
\* value that is not an error of the transport: not an Error in the http transport, not
\* an AxiosError in the axios transport.
C17_EmptyMessageGivesNetworkError ==
    (ret.op = "handleError" /\ ret.kind # "cancelled") =>
        ret.value = ErrorResult(ret.url, FALSE,
                        CASE ret.kind = "timeout" -> "Request timeout"
                          [] ret.kind = "dns" -> "Domain not found"
                          [] ret.kind = "refused" -> "Connection refused"
                          [] ret.kind = "other" -> ret.error.message
                          [] ret.kind = "empty message" -> "Network error"
                          [] ret.kind = "not a transport error" -> "Unknown error")

\* handleError of the http transport met an Error with an empty message and answered
\* "Network error".
C17_Witness ==
    /\ ret.op = "handleError"
    /\ ret.transport = "http"
    /\ ret.kind = "empty message"
    /\ ret.error = Err("")
    /\ ret.value = ErrorResult(ret.url, FALSE, "Network error")

\* C18 (SpecCache): a cache constructed with ttl = 0 never reports an entry: every get
\* returns undefined and every has returns false, also at the clock reading at which the
\* entry was stamped.
C18_ZeroTtlAlwaysExpired ==
    ttlMs = 0 =>
        /\ ret.op = "get" => ret.value = Undefined
        /\ ret.op = "has" => ret.value = FALSE

\* C19 as claimed (SpecCache): a cleanup() that runs right after a cleanup(), with no other
\* cache call between the two, leaves the cache with the entries the first run left.
C19_SecondCleanupRemovesNothing ==
    [][(ret.op = "cleanup" /\ ret'.op = "cleanup") => cache' = cache]_vars

\* C19 as amended (SpecCache): a cleanup() that runs right after a cleanup(), at the clock
\* reading of the first run, leaves the cache with the entries the first run left.
C19_SecondCleanupAtSameTimeRemovesNothing ==
    [][(ret.op = "cleanup" /\ ret'.op = "cleanup" /\ ret.at = now) => cache' = cache]_vars

\* After a cleanup that found nothing to remove in a cache that still holds an entry of
\* the age of exactly ttl.
C19_Witness ==
    /\ ret.op = "cleanup" /\ ret.at = now /\ ret.pre = cache
    /\ ttlMs > 0
    /\ \E u \in DOMAIN cache : now - cache[u].timestamp = ttlMs

\* An outcome carries either statusCode and statusText and no error, or an error and no
\* status field, and is not valid with a status that means broken.
NonContradictory(o) ==
    LET hasCode == "statusCode" \in DOMAIN o
        hasText == "statusText" \in DOMAIN o
        hasError == "error" \in DOMAIN o
    IN  /\ "isValid" \in DOMAIN o /\ o.isValid \in BOOLEAN
        /\ \/ hasCode /\ hasText /\ ~hasError
           \/ hasError /\ ~hasCode /\ ~hasText
        /\ ~(hasCode /\ o.isValid /\ o.statusCode \in {404, 410})

\* C20 (SpecProbe): every outcome an invocation returned, every outcome in a list that
\* validateUrls returns and every entry of the cache is non-contradictory.
C20_OutcomesAreNonContradictory ==
    /\ \A i \in Invocations :
          val[i[1]][i[2]].pc = "done" => NonContradictory(val[i[1]][i[2]].result)
    /\ \A b \in Batches : \A k \in 1..Len(batch[b].results) :
          NonContradictory(batch[b].results[k])
    /\ \A u \in DOMAIN cache : NonContradictory(cache[u])

\* HEAD answered 403 and the GET after it 410: broken with status fields, returned in the
\* list and stored.
C20_Witness ==
    \E b \in Batches, u \in Urls :
        /\ val[b][u].pc = "done"
        /\ val[b][u].get # Undefined /\ val[b][u].get.statusCode = 410
        /\ val[b][u].result = StatusResult(u, FALSE, 410, "Gone")
        /\ batch[b].st = "done" /\ batch[b].results = <<val[b][u].result>>
        /\ u \in DOMAIN cache /\ cache[u].statusCode = 410 /\ ~cache[u].isValid

\* C21 (SpecUnits): updateDiagnostics produces a warning for an occurrence of a detected
\* url if and only if the result list holds an outcome for that url with isValid = false:
\* one warning per such occurrence, in text order, and none for an occurrence whose url has
\* a valid, "Protected" or cancelled outcome or no outcome at all. The warnings are what
\* the collection holds for the document when the call returns.
C21_WarningIffInvalidOutcome ==
    /\ [][(ret.op = "input" /\ ret'.op = "updateDiagnostics") =>
              /\ ret'.document \in DOMAIN diagnosticCollection'
              /\ diagnosticCollection'[ret'.document] = ret'.value]_vars
    /\ [](ret.op = "updateDiagnostics" =>
           LET detected == ret.detectedUrls
               results == ret.validationResults
               Broken(k) == \E j \in 1..Len(results) :
                               results[j].url = detected[k].url /\ ~results[j].isValid
               Warned(k) == \E i \in 1..Len(ret.value) : ret.value[i].range = detected[k].range
           IN  /\ \A k \in 1..Len(detected) : Warned(k) <=> Broken(k)
               /\ Len(ret.value) = Cardinality({k \in 1..Len(detected) : Broken(k)})
               /\ \A i \in 1..Len(ret.value) :
                     /\ ret.value[i].severity = "Warning"
                     /\ \A h \in 1..Len(ret.value) :
                           i < h => ret.value[i].range < ret.value[h].range
               /\ \A k \in 1..Len(detected), j \in 1..Len(results) :
                     /\ results[j].url = detected[k].url
                     /\ ret.kinds[j] \in {"valid", "protected", "cancelled"}
                     => ~Warned(k))

\* Three occurrences, two of a broken url and one of a url whose probe was cancelled: two
\* warnings.
C21_Witness ==
    /\ ret.op = "updateDiagnostics"
    /\ Len(Shown(ret.document)) = 2
    /\ Len(ret.detectedUrls) = 3
    /\ Len(ret.value) = 2
    /\ \E j \in 1..Len(ret.kinds) :
          /\ ret.kinds[j] = "cancelled"
          /\ ret.validationResults[j] = CancelledResult(ret.validationResults[j].url)
          /\ \E k \in 1..3 : ret.detectedUrls[k].url = ret.validationResults[j].url

\* The extension is active, no timer is pending and no processDocument call is under way.
Quiescent ==
    /\ ~disposed
    /\ debounceTimers = {}
    /\ \A b \in Batches : processing[b].pc # "await"

\* C22 (SpecExtension): when several open documents are processed, a document's timer
\* firing while another document's validation is in flight, and no further edit occurs,
\* every open document ends up with a warning for each of its detected urls that the
\* validation engine classifies as broken (here: whose server answers 404).
C22_EveryBrokenUrlIsWarned ==
    Quiescent =>
        \A d \in openDocuments :
            languageId(d) \in supportedLanguages =>
                \A k \in 1..Len(scanDocument(d)) :
                    ~AfterHead(scanDocument(d)[k].url,
                               ServerResponse(scanDocument(d)[k].url)).isValid
                    => \E i \in 1..Len(Shown(d)) : Shown(d)[i].range = scanDocument(d)[k].range

\* C26 (SpecExtension): after a document is closed its pending debounce timer is removed
\* and its diagnostics are cleared and stay empty until it is opened again, even when a
\* validation of the document was in flight when it was closed.
C26_ClosedDocumentShowsNothing ==
    \A d \in Documents :
        d \notin openDocuments => d \notin debounceTimers /\ Shown(d) = <<>>

\* A step in which the validator of u in batch b issues a request.
IssuesRequest(b, u) ==
    /\ val'[b][u].wire = "open"
    /\ \/ val[b][u].wire # "open"
       \/ val'[b][u].reqs # val[b][u].reqs
       \/ val'[b][u].pc # val[b][u].pc

\* C23 (SpecAbort): once the signal of a batch is aborted no validator of the batch issues
\* a request: no first HEAD, no GET after the 403 / 405 of the HEAD, no further hop of a
\* redirect chain.
C23_NoRequestAfterAbort ==
    [][\A b \in Batches, u \in Urls : b \in aborted => ~IssuesRequest(b, u)]_vars

\* A call with two urls and windows of one was aborted after the HEAD of the first url was
\* answered 403 and before validateUrl went on: the GET probe was refused without a
\* request, and the loop was left before the window of the second url, whose validator
\* never started; the call resolved with the one outcome.
C23_Witness ==
    \E b \in Batches :
        /\ b \in aborted
        /\ maxConcurrent = 1
        /\ batch[b].uniqueUrls = <<UrlA, UrlB>>
        /\ val[b][UrlA].head # Undefined
        /\ val[b][UrlA].head.statusCode = 403
        /\ val[b][UrlA].get = Undefined
        /\ val[b][UrlA].pc = "done"
        /\ val[b][UrlA].reqs = 0
        /\ val[b][UrlA].cause = "abort"
        /\ val[b][UrlA].result = CancelledResult(UrlA)
        /\ val[b][UrlB].pc = "idle"
        /\ val[b][UrlB].reqs = 0
        /\ batch[b].st = "done"
        /\ batch[b].results = <<CancelledResult(UrlA)>>

\* C24 (SpecAbort): in the step that aborts the signal of a batch, by cancel() or by a new
\* validateUrls call, every probe of the batch that is in flight fails with the Cancelled
\* failure and its request is destroyed, without a network event.
C24_AbortFailsProbesInFlight ==
    [][\A b \in Batches :
          b \notin aborted /\ b \in aborted' =>
              \A u \in Urls :
                  val[b][u].promise = "pending" =>
                      /\ val'[b][u].promise = "rejected"
                      /\ val'[b][u].value = Err(MsgCancelled)
                      /\ val'[b][u].cause = "abort"
                      /\ val'[b][u].wire = "closed"]_vars

\* C24 (SpecAbort), second half: the validateUrls call of an aborted batch resolves, even
\* if no server ever answers.
C24_AbortedBatchResolves ==
    \A b \in Batches : (b \in aborted /\ batch[b].st = "running") ~> batch[b].st = "done"

\* C24 (SpecAbort): both halves.
C24_AbortSettlesTheBatch == C24_AbortFailsProbesInFlight /\ C24_AbortedBatchResolves

\* A batch aborted by the next validateUrls call while its probe was in flight on the
\* second request of a redirect chain has resolved, its outcome the cancellation.
C24_Witness ==
    \E b \in Batches, u \in Urls :
        /\ b \in aborted
        /\ abortController # 0 /\ abortController # b
        /\ batch[b].st = "done"
        /\ val[b][u].cause = "abort"
        /\ val[b][u].reqs = 2
        /\ batch[b].results = <<CancelledResult(u)>>

\* C27 (SpecAnswered): with maxConcurrent >= 1 and every request ending in a response or a
\* timeout, every validateUrls call resolves, whatever the servers answer, redirects that
\* lead back to an earlier url of the chain included.
C27_EveryCallResolves ==
    \A b \in Batches : batch[b].st = "running" ~> batch[b].st = "done"

\* The length of a text in bytes, in UTF-8.
Utf8Length(text) ==
    LET Width(char) == IF char = "a" THEN 1 ELSE IF char = "e acute" THEN 2 ELSE 3
        RECURSIVE Sum(_)
        Sum(t) == IF t = <<>> THEN 0 ELSE Width(Head(t).char) * Head(t).count + Sum(Tail(t))
    IN  Sum(text)

\* text p is a prefix of text d
IsTextPrefix(p, d) ==
    \/ p = <<>>
    \/ /\ Len(p) <= Len(d)
       /\ \A i \in 1..(Len(p) - 1) : p[i] = d[i]
       /\ p[Len(p)].char = d[Len(p)].char
       /\ p[Len(p)].count <= d[Len(p)].count

\* C25 (SpecUnits): for a GET probe, whatever the number and the sizes of the chunks, the
\* body of the returned response holds at most 10240 bytes and is a prefix of the received
\* data, and a response larger than the cap still resolves the probe with its status.
C25_BodyIsCappedPrefix ==
    ret.op = "readBody" =>
        /\ ret.value.statusCode = ret.statusCode
        /\ Utf8Length(ret.value.body) <= maxBytes
        /\ IsTextPrefix(ret.value.body, toString(Flattened(ret.chunks)))

====
